---- MODULE Spec2Model ----
(***************************************************************************)
(* Model of the social-insights repository: the incremental bronze ->      *)
(* silver pipeline (src/data/silver/process_enhanced.py), its helpers      *)
(* (src/data/ingestion/utils), the bronze upsert (src/data/ingestion/      *)
(* utils/db.py), the ingestion run (src/data/ingestion/main.py), the       *)
(* similarity search and the saving of insights (src/data/gold/process.py, *)
(* src/data/silver/processor.py).                                          *)
(*                                                                         *)
(* Conventions.                                                            *)
(*  - A Python str is a sequence of one-character strings.                 *)
(*  - A Python dict is a function on its keys; `key in d` is             *)
(*    key \in DOMAIN d.  None / SQL NULL / "no row" is the empty sequence. *)
(*  - Timestamps are integers (clock ticks); the database clock and        *)
(*    datetime.utcnow() are the same clock `now`.                          *)
(*  - Engagement scores are kept in tenths (10 * score), which makes       *)
(*    0.2*l + 0.3*s + 0.5*c the integer 2*l + 3*s + 5*c.                   *)
(*  - A cosine similarity is the pair <<d, n>> standing for d / sqrt(n),   *)
(*    n = |a|^2 * |b|^2; n = 0 is NaN.  Comparisons are exact.             *)
(*  - An embedding is [dim, head]: a vector of dim components whose first  *)
(*    components are head and whose remaining components are 0.            *)
(***************************************************************************)
EXTENDS Integers, Sequences, FiniteSets, TLC

\* ------------------------------------------------------------------ bounds
MaxTime == 2
MaxPosts == 2
MaxOverlaps == 1
\* the resolution of the clock: ticks in one day
TicksPerDay == 2
\* the largest top_k of a search
MaxTopK == 2
\* the largest number of likes, of shares and of comments in a direct call
MaxCount == 2

\* ------------------------------------------------------- program constants
\* timedelta(days=1)
Day == 1 * TicksPerDay
\* vector(384), len(embedding) != 384
D == 384
\* null_text_count / len(posts) > 0.01, as a percentage
NullTextPercent == 1

\* An optional value (None, SQL NULL, no row) is a sequence of length 0 or 1.
None == <<>>
Some(v) == <<v>>

PostIds == 1..MaxPosts
Runs == {1, 2}

\* ------------------------------------------------------------ Python str
LowerSeq ==
  <<"a","b","c","d","e","f","g","h","i","j","k","l","m",
    "n","o","p","q","r","s","t","u","v","w","x","y","z">>
UpperSeq ==
  <<"A","B","C","D","E","F","G","H","I","J","K","L","M",
    "N","O","P","Q","R","S","T","U","V","W","X","Y","Z">>
Digits == {"0","1","2","3","4","5","6","7","8","9"}
Range(s) == {s[i] : i \in DOMAIN s}
\* \w and \s of the re module
WordChars == Range(LowerSeq) \cup Range(UpperSeq) \cup Digits \cup {"_"}
SpaceChars == {" "}

lower_char(c) ==
  IF \E i \in DOMAIN UpperSeq : UpperSeq[i] = c
    THEN LowerSeq[CHOOSE i \in DOMAIN UpperSeq : UpperSeq[i] = c]
    ELSE c
\* str.lower()
lower(s) == [i \in DOMAIN s |-> lower_char(s[i])]

RECURSIVE lstrip(_)
lstrip(s) == IF s # <<>> /\ Head(s) \in SpaceChars THEN lstrip(Tail(s)) ELSE s
RECURSIVE rstrip(_)
rstrip(s) ==
  IF s # <<>> /\ s[Len(s)] \in SpaceChars THEN rstrip(SubSeq(s, 1, Len(s) - 1)) ELSE s
\* str.strip()
strip(s) == rstrip(lstrip(s))

\* sub in s
Contains(sub, s) ==
  \E i \in 0..(Len(s) - Len(sub)) : SubSeq(s, i + 1, i + Len(sub)) = sub

\* re.sub(r'[^...]', '', text): keep the characters of the class
RECURSIVE KeepChars(_, _)
KeepChars(s, class) ==
  IF s = <<>> THEN <<>>
  ELSE IF Head(s) \in class THEN <<Head(s)>> \o KeepChars(Tail(s), class)
  ELSE KeepChars(Tail(s), class)

\* re.sub(r'\s+', ' ', text): every run of whitespace becomes one blank
RECURSIVE CollapseSpaces(_)
CollapseSpaces(s) ==
  IF s = <<>> THEN <<>>
  ELSE IF Head(s) \in SpaceChars
    THEN <<" ">> \o CollapseSpaces(lstrip(s))
    ELSE <<Head(s)>> \o CollapseSpaces(Tail(s))

\* clean_text, on texts without "://" and without "&": the URL pattern and
\* html.unescape find nothing to replace in them.
clean_text(raw_text) ==
  IF raw_text = <<>> THEN <<>>
  ELSE LET t3 == KeepChars(raw_text,
                   WordChars \cup SpaceChars \cup {"#","@",".",",","!","?","'","-"})
           t4 == strip(CollapseSpaces(t3))
       IN KeepChars(t4, WordChars \cup SpaceChars \cup {".",",","!","?"})

\* ------------------------------------------------------ text_cleaning.py
\* a score with the weights of likes and comments exchanged
calculate_engagement_score_exchanged(likes, shares, comments) ==
  (5 * likes) + (3 * shares) + (2 * comments)

\* calculate_engagement_score, in tenths
calculate_engagement_score(likes, shares, comments) ==
  (2 * likes) + (3 * shares) + (5 * comments)

get_competitor_keywords ==
  << <<"h","u","a","w","e","i">>, <<"s","a","m","s","u","n","g">>,
     <<"p","i","x","e","l">>, <<"g","o","o","g","l","e">> >>

reviewer_indicators ==
  << <<"r","e","v","i","e","w">>, <<"i","m","p","r","e","s","s","i","o","n">>,
     <<"h","a","n","d","s"," ","o","n">>, <<"u","n","b","o","x","i","n","g">>,
     <<"t","e","s","t">>, <<"v","s">>,
     <<"c","o","m","p","a","r","i","s","o","n">> >>

\* a classifier whose last branch returns a type outside the allowed set
classify_source_type_unknown(author, content, company_keywords) ==
  LET author_lower == lower(author)
      content_lower == lower(content)
      official == <<"o","f","f","i","c","i","a","l">>
  IN IF \E k \in DOMAIN company_keywords :
          \/ Contains(lower(company_keywords[k]), author_lower)
          \/ Contains(official \o lower(company_keywords[k]), author_lower)
       THEN "Competitor"
     ELSE IF \E k \in DOMAIN reviewer_indicators :
          Contains(reviewer_indicators[k], content_lower)
       THEN "Reviewer"
     ELSE "Unknown"

\* a classifier that looks for the reviewer indicators first
classify_source_type_reviewer_first(author, content, company_keywords) ==
  LET author_lower == lower(author)
      content_lower == lower(content)
  IN IF \E k \in DOMAIN reviewer_indicators :
          Contains(reviewer_indicators[k], content_lower)
       THEN "Reviewer"
     ELSE IF \E k \in DOMAIN company_keywords :
          Contains(lower(company_keywords[k]), author_lower)
       THEN "Competitor"
     ELSE "Customer"

classify_source_type(author, content, company_keywords) ==
  LET author_lower == lower(author)
      content_lower == lower(content)
      official == <<"o","f","f","i","c","i","a","l">>
  IN IF \E k \in DOMAIN company_keywords :
          \/ Contains(lower(company_keywords[k]), author_lower)
          \/ Contains(official \o lower(company_keywords[k]), author_lower)
       THEN "Competitor"
     ELSE IF \E k \in DOMAIN reviewer_indicators :
          Contains(reviewer_indicators[k], content_lower)
       THEN "Reviewer"
     ELSE "Customer"

\* a hash of the content as it is written, upper and lower case apart
content_hash_cased(post) == strip(post.content)

\* hash(content.lower().strip()); hash() is taken to be injective
content_hash(post) == strip(lower(post.content))

RECURSIVE dedup_loop(_, _, _)
dedup_loop(posts, seen_hashes, unique_posts) ==
  IF posts = <<>> THEN unique_posts
  ELSE IF content_hash(Head(posts)) \notin seen_hashes
    THEN dedup_loop(Tail(posts), seen_hashes \cup {content_hash(Head(posts))},
                    Append(unique_posts, Head(posts)))
    ELSE dedup_loop(Tail(posts), seen_hashes, unique_posts)

\* a deduplication that keeps no post of a group of duplicates
deduplicate_posts_dropping(posts) ==
  SelectSeq(posts, LAMBDA post :
    \A i \in DOMAIN posts : content_hash(posts[i]) = content_hash(post) => posts[i] = post)

deduplicate_posts(posts) == dedup_loop(posts, {}, <<>>)

\* ------------------------------------------------- the embedding provider
\* SentenceTransformer('all-MiniLM-L6-v2').encode: an opaque deterministic
\* function from text to a non-zero vector of D components.  The stand-in
\* below depends on the first character of the text only.
encode(text) ==
  [dim |-> D,
   head |-> IF text = <<>> THEN <<1, 0>>
            ELSE IF Head(text) = "a" THEN <<3, 4>>
            ELSE IF Head(text) = "A" THEN <<4, 3>>
            ELSE <<0, 1>>]

\* ------------------------------------------------- great_expectations.py
\* dict.get(key) is not None and isinstance(..., list) and len(...) == 384
IsList384(post) == "post_embedding" \in DOMAIN post /\ post.post_embedding.dim = 384

source_types == {"Customer", "Competitor", "Reviewer"}

required_fields ==
  <<"post_id", "post_text_cleaned", "engagement_score", "post_embedding", "source_type">>

\* The errors validate_schema_silver appends for posts[i].  post_id is read
\* from a VARCHAR column and engagement_score is the result of
\* calculate_engagement_score, so the two isinstance checks of lines 32-38
\* cannot fail and are not represented.
schema_errors_of(post, i) ==
  LET missing == SelectSeq(required_fields, LAMBDA f : f \notin DOMAIN post)
  IN [k \in DOMAIN missing |->
        [msg |-> "Missing required field", post |-> i, what |-> missing[k]]]
     \o (IF "post_embedding" \in DOMAIN post /\ ~IsList384(post)
           THEN <<[msg |-> "post_embedding must be array of 384 floats",
                   post |-> i, what |-> "post_embedding"]>>
           ELSE <<>>)
     \o (IF "source_type" \in DOMAIN post /\ post.source_type \notin source_types
           THEN <<[msg |-> "source_type must be one of", post |-> i,
                   what |-> "source_type"]>>
           ELSE <<>>)

RECURSIVE schema_errors(_, _)
schema_errors(posts, i) ==
  IF i > Len(posts) THEN <<>>
  ELSE schema_errors_of(posts[i], i - 1) \o schema_errors(posts, i + 1)

validate_schema_silver(posts) ==
  LET errors == schema_errors(posts, 1)
  IN [passed |-> errors = <<>>, errors |-> errors]

\* sum(1 for post in posts if cond)
CountIf(posts, Test(_)) == Cardinality({i \in DOMAIN posts : Test(posts[i])})

\* not post.get('post_text_cleaned')
NullText(post) == "post_text_cleaned" \notin DOMAIN post \/ post.post_text_cleaned = <<>>

InvalidEmbedding(post) == ~IsList384(post)

\* validate_data_quality; requires posts # <<>> (len(posts) is a divisor)
validate_data_quality(posts) ==
  LET null_text_count == CountIf(posts, NullText)
      invalid_embeddings == CountIf(posts, InvalidEmbedding)
      \* null_text_count / len(posts) > 0.01
      too_many_null == 100 * null_text_count > NullTextPercent * Len(posts)
      errors ==
        (IF too_many_null
           THEN <<[msg |-> "Too many null post_text_cleaned",
                   post |-> null_text_count, what |-> "post_text_cleaned"]>>
           ELSE <<>>)
        \o (IF invalid_embeddings > 0
              THEN <<[msg |-> "Invalid embedding dimensions",
                      post |-> invalid_embeddings, what |-> "post_embedding"]>>
              ELSE <<>>)
  IN [passed |-> errors = <<>>, errors |-> errors,
      metrics |-> [total_posts |-> Len(posts),
                   null_text_count |-> null_text_count]]

\* ------------------------------------------------------------------ state
VARIABLES
  now,            \* the clock: CURRENT_TIMESTAMP and datetime.utcnow()
  bronze,         \* committed rows of bronze.social_posts
  silver,         \* committed rows of silver.social_posts_cleaned_features
  wm,             \* committed metadata.pipeline_watermarks row of
                  \* 'bronze_to_silver': None or Some(timestamp)
  pc,             \* per run: the step it is about to execute
  txStart,        \* per run: start of its transaction (its CURRENT_TIMESTAMP)
  wmRead,         \* per run: watermark_result, the row read at LOAD_WATERMARK
  posts_list,     \* per run: the list of post dicts
  validation,     \* per run: schema_validation and quality_validation
  newWm,          \* per run: the datetime.utcnow() bound to :watermark
  result,         \* per run: the returned dict
  overlaps,       \* number of runs started while another one was under way
  batch,          \* history, per run: post ids returned by its latest
                  \* FETCH_BATCH (none when the run failed in it)
  failedAt,       \* history, per run: the step at which its latest run
                  \* aborted, "IDLE" when that run fetched
  fetchedByCommitted, \* history: post ids fetched by some committed run
  wmBatch,        \* history: post ids upserted by the commit that wrote wm
  srcOf,          \* history: post id -> the bronze fields its silver row
                  \* was derived from
  succession,     \* history: the runs that completed one after the other
                  \* with no post arriving since the first of them started
  search,         \* the latest call of find_similar_posts: None, or Some of
                  \* its arguments and the list it returned
  reply,          \* the latest call of another operation: None, or Some of
                  \* its name, its arguments and what it returned or raised
  last_ingest,    \* the content of TIMESTAMP_FILE (.last_ingest.txt): None
                  \* while the file does not exist, or Some(timestamp)
  insights_fact   \* committed rows of gold.marketing_insights_fact

storeVars == <<bronze, silver, wm>>
localVars == <<txStart, wmRead, posts_list, validation, newWm>>
histVars == <<fetchedByCommitted, wmBatch, srcOf>>
runHist == <<batch, failedAt, succession>>
readerVars == <<search, reply>>
sinkVars == <<last_ingest, insights_fact>>
vars ==
  <<now, storeVars, pc, localVars, result, overlaps, runHist, histVars, readerVars, sinkVars>>

\* The values a scrape or another writer can put into a bronze row.  db.py
\* writes author_username and content; likes, shares and comments are columns
\* it does not write (NULL unless written elsewhere).
RawInputs ==
  { [author_username |-> <<"u">>, content |-> <<"a">>,
     likes |-> None, shares |-> None, comments |-> None],
    [author_username |-> <<"p","i","x","e","l">>, content |-> <<"A">>,
     likes |-> Some(1), shares |-> Some(0), comments |-> Some(1)],
    [author_username |-> <<"u">>, content |-> <<"#">>,
     likes |-> Some(0), shares |-> Some(1), comments |-> None] }

Steps == {"IDLE", "FETCH_BATCH", "CLEAN", "DEDUPLICATE", "SCORE_AND_CLASSIFY",
          "EMBED", "VALIDATE", "PERSIST", "ADVANCE_WATERMARK", "WRITE_WATERMARK",
          "COMMIT", "DONE", "ABORTED"}
InFlight == Steps \ {"IDLE", "DONE", "ABORTED"}
NoValidation == [schema |-> None, quality |-> None]

\* succession: no two runs in succession yet; phase is "FIRST" while the
\* first of two runs is under way, "BETWEEN" when it has completed, "SECOND"
\* while the run started next is under way, "AFTER" when that has completed;
\* first and second tell whether the run committed a watermark.
NoPair == [phase |-> "NONE", first |-> FALSE, second |-> FALSE]
\* a run starts while no other is under way
started(s) ==
  IF s.phase = "BETWEEN" THEN [s EXCEPT !.phase = "SECOND"]
  ELSE IF s.phase = "AFTER" THEN [phase |-> "SECOND", first |-> s.second, second |-> FALSE]
  ELSE [phase |-> "FIRST", first |-> FALSE, second |-> FALSE]
\* a run returns; advanced: it committed a watermark
finished(s, advanced) ==
  IF s.phase = "FIRST" THEN [s EXCEPT !.phase = "BETWEEN", !.first = advanced]
  ELSE IF s.phase = "SECOND" THEN [s EXCEPT !.phase = "AFTER", !.second = advanced]
  ELSE s

Init ==
  /\ now = 0
  /\ bronze = {}
  /\ silver = {}
  /\ wm = None
  /\ pc = [r \in Runs |-> "IDLE"]
  /\ txStart = [r \in Runs |-> 0]
  /\ wmRead = [r \in Runs |-> None]
  /\ posts_list = [r \in Runs |-> <<>>]
  /\ validation = [r \in Runs |-> NoValidation]
  /\ newWm = [r \in Runs |-> None]
  /\ result = [r \in Runs |-> None]
  /\ overlaps = 0
  /\ batch = [r \in Runs |-> {}]
  /\ failedAt = [r \in Runs |-> "IDLE"]
  /\ fetchedByCommitted = {}
  /\ wmBatch = {}
  /\ srcOf = [i \in PostIds |-> None]
  /\ succession = NoPair
  /\ search = None
  /\ reply = None
  /\ last_ingest = None
  /\ insights_fact = {}

Ids(rows) == {row.post_id : row \in rows}
RowOf(rows, id) == CHOOSE row \in rows : row.post_id = id

\* the clock advances
Tick ==
  /\ now < MaxTime
  /\ now' = now + 1
  /\ UNCHANGED <<storeVars, pc, localVars, result, overlaps, runHist, histVars, readerVars, sinkVars>>

\* INSERT INTO bronze.social_posts ... ON CONFLICT (post_id) DO UPDATE SET
\* ... of one post; created_at is set on insert only, to `ts`; likes, shares
\* and comments are not among the columns the statement writes: a new row
\* carries the values the other writers of the table give them (raw.likes,
\* ...; None when there is none), and a conflict leaves them.
\* posted_at is the datetime.utcnow() of the scrape: only its order is read
\* (ORDER BY posted_at), so it is kept as the rank of the row among the rows,
\* the latest scrape having the highest.
bronze_upsert(rows, id, raw, ts) ==
  IF id \in Ids(rows)
    THEN LET old == RowOf(rows, id)
         IN {[row EXCEPT !.posted_at = IF row.posted_at > old.posted_at
                                         THEN row.posted_at - 1 ELSE row.posted_at]
               : row \in rows \ {old}}
            \cup {[old EXCEPT !.author_username = raw.author_username,
                              !.content = raw.content,
                              !.posted_at = Cardinality(rows)]}
    ELSE rows \cup {[post_id |-> id, author_username |-> raw.author_username,
                     content |-> raw.content, posted_at |-> Cardinality(rows) + 1,
                     likes |-> raw.likes, shares |-> raw.shares,
                     comments |-> raw.comments, created_at |-> ts]}

\* upsert_bronze_posts([post]): one post is written and committed.  created_at
\* is the CURRENT_TIMESTAMP of the transaction, the tick in which it began.
upsert_bronze_posts(id, raw) ==
  /\ bronze' = bronze_upsert(bronze, id, raw, now)
  /\ succession' = NoPair
  /\ UNCHANGED <<now, silver, wm, pc, localVars, result, overlaps, batch, failedAt,
                 histVars, readerVars, sinkVars>>

\* A scrape finds a new post.  Post ids are names without an order, and new
\* posts are named in the order of their arrival.  (A scrape that finds a
\* post again, under the same post_id, renews its posted_at and leaves
\* created_at, which is what the pipeline selects by: it is left out.)
Arrive(raw) ==
  /\ Cardinality(bronze) + 1 \in PostIds
  /\ upsert_bronze_posts(Cardinality(bronze) + 1, raw)

\* ------------------------------------------ process_bronze_to_silver, a run
\* d[k] = v
SetKey(d, k, v) == [x \in DOMAIN d \cup {k} |-> IF x = k THEN v ELSE d[x]]
\* ORDER BY posted_at DESC: posted_at is distinct for every row
RECURSIVE OrderByPostedAtDesc(_)
OrderByPostedAtDesc(rows) ==
  IF rows = {} THEN <<>>
  ELSE LET newest == CHOOSE row \in rows : \A o \in rows : o.posted_at <= row.posted_at
       IN <<newest>> \o OrderByPostedAtDesc(rows \ {newest})
\* row[7] or 0
OrZero(v) == IF v = None THEN 0 ELSE v[1]

PostIdsOf(posts) == {posts[i].post_id : i \in DOMAIN posts}

\* rows whose lock (or uncommitted insert) run r holds: the upserts it has
\* executed and not yet committed
LockedIds(r) ==
  IF pc[r] \in {"ADVANCE_WATERMARK", "WRITE_WATERMARK", "COMMIT"}
    THEN PostIdsOf(posts_list[r]) ELSE {}
\* run r has executed its watermark upsert and not yet committed
HoldsWatermark(r) == pc[r] = "COMMIT"

\* last_watermark, line 69
last_watermark(r) == IF wmRead[r] # None THEN wmRead[r][1] ELSE txStart[r] - Day

\* the connection is closed and the locals of the run go out of scope
Forget(r) ==
  /\ txStart' = [txStart EXCEPT ![r] = 0]
  /\ wmRead' = [wmRead EXCEPT ![r] = None]
  /\ posts_list' = [posts_list EXCEPT ![r] = <<>>]
  /\ validation' = [validation EXCEPT ![r] = NoValidation]
  /\ newWm' = [newWm EXCEPT ![r] = None]

\* engine.connect() and LOAD_WATERMARK, lines 61-69
LoadWatermark(r) ==
  /\ pc[r] \in {"IDLE", "DONE", "ABORTED"}
  /\ txStart' = [txStart EXCEPT ![r] = now]
  /\ wmRead' = [wmRead EXCEPT ![r] = wm]
  /\ pc' = [pc EXCEPT ![r] = "FETCH_BATCH"]
  /\ posts_list' = [posts_list EXCEPT ![r] = <<>>]
  /\ validation' = [validation EXCEPT ![r] = NoValidation]
  /\ newWm' = [newWm EXCEPT ![r] = None]
  /\ result' = [result EXCEPT ![r] = None]
  /\ UNCHANGED <<now, storeVars, batch, failedAt, histVars, readerVars, sinkVars>>

\* a fetch that takes the posts at the watermark as well
NewPosts_inclusive(rows, watermark) == {row \in rows : row.created_at >= watermark}

\* WHERE created_at > :watermark
NewPosts(rows, watermark) == {row \in rows : row.created_at > watermark}

\* the dict built from a fetched row, lines 90-101 (company, platform,
\* posted_at and url are carried along unread and are left out)
post_dict(row) ==
  [post_id |-> row.post_id, author_username |-> row.author_username,
   content |-> row.content, likes |-> OrZero(row.likes),
   shares |-> OrZero(row.shares), comments |-> OrZero(row.comments)]

\* posts_list, lines 86-101
fetch_posts(bronze_posts) ==
  LET rows == OrderByPostedAtDesc(bronze_posts)
  IN [i \in DOMAIN rows |-> post_dict(rows[i])]

\* FETCH_BATCH, lines 72-101; an empty batch returns at once
FetchBatch(r) ==
  LET bronze_posts == NewPosts(bronze, last_watermark(r))
  IN /\ pc[r] = "FETCH_BATCH"
     /\ batch' = [batch EXCEPT ![r] = Ids(bronze_posts)]
     /\ failedAt' = [failedAt EXCEPT ![r] = "IDLE"]
     /\ IF bronze_posts = {}
          THEN /\ pc' = [pc EXCEPT ![r] = "DONE"]
               /\ result' = [result EXCEPT ![r] = Some([processed |-> 0, errors |-> <<>>])]
               /\ Forget(r)
               /\ succession' = finished(succession, FALSE)
          ELSE /\ posts_list' = [posts_list EXCEPT ![r] = fetch_posts(bronze_posts)]
               /\ pc' = [pc EXCEPT ![r] = "CLEAN"]
               /\ UNCHANGED <<result, txStart, wmRead, validation, newWm, succession>>
     /\ UNCHANGED <<now, storeVars, overlaps, histVars, readerVars, sinkVars>>

\* a step of run r that only rewrites its posts_list
LocalStep(r, from, to, new_list) ==
  /\ pc[r] = from
  /\ posts_list' = [posts_list EXCEPT ![r] = new_list]
  /\ pc' = [pc EXCEPT ![r] = to]
  /\ UNCHANGED <<now, storeVars, txStart, wmRead, validation, newWm, result,
                 overlaps, runHist, histVars, readerVars, sinkVars>>

\* Step A2, lines 106-107
clean_posts(posts) ==
  [i \in DOMAIN posts |-> SetKey(posts[i], "post_text_cleaned", clean_text(posts[i].content))]

Clean(r) == LocalStep(r, "CLEAN", "DEDUPLICATE", clean_posts(posts_list[r]))

\* Step A3, lines 111-112
Deduplicate(r) ==
  LocalStep(r, "DEDUPLICATE", "SCORE_AND_CLASSIFY", deduplicate_posts(posts_list[r]))

\* Step A4, one post
score_and_classify(post) ==
  SetKey(SetKey(post, "engagement_score",
                calculate_engagement_score(post.likes, post.shares, post.comments)),
         "source_type",
         classify_source_type(post.author_username, post.content, get_competitor_keywords))

\* Step A4, lines 117-124
score_posts(posts) == [i \in DOMAIN posts |-> score_and_classify(posts[i])]

ScoreAndClassify(r) == LocalStep(r, "SCORE_AND_CLASSIFY", "EMBED", score_posts(posts_list[r]))

\* Step A5, lines 128-132
embed_posts(posts) ==
  [i \in DOMAIN posts |->
     SetKey(posts[i], "post_embedding", encode(posts[i].post_text_cleaned))]

Embed(r) == LocalStep(r, "EMBED", "VALIDATE", embed_posts(posts_list[r]))

\* a failure handler that records the run in the watermark all the same
Abort_advancing(r) ==
  /\ pc' = [pc EXCEPT ![r] = "ABORTED"]
  /\ failedAt' = [failedAt EXCEPT ![r] = pc[r]]
  /\ batch' = [batch EXCEPT ![r] = IF pc[r] = "FETCH_BATCH" THEN {} ELSE batch[r]]
  /\ succession' = NoPair
  /\ Forget(r)
  /\ wm' = Some(now)
  /\ UNCHANGED <<now, bronze, silver, result, overlaps, histVars, readerVars, sinkVars>>

\* An exception or a crash of run r at the step it is about to execute: the
\* connection is closed without commit and the transaction is rolled back.
Abort(r) ==
  /\ pc' = [pc EXCEPT ![r] = "ABORTED"]
  /\ failedAt' = [failedAt EXCEPT ![r] = pc[r]]
  /\ batch' = [batch EXCEPT ![r] = IF pc[r] = "FETCH_BATCH" THEN {} ELSE batch[r]]
  /\ succession' = NoPair
  /\ Forget(r)
  /\ UNCHANGED <<now, storeVars, result, overlaps, histVars, readerVars, sinkVars>>

\* Data Quality Validation, lines 136-149: the two results are computed and
\* printed; the run goes on to the insert whatever they are.  An empty list
\* makes validate_data_quality divide by zero.
Validate(r) ==
  /\ pc[r] = "VALIDATE"
  /\ IF posts_list[r] = <<>>
       THEN Abort(r)
       ELSE /\ validation' = [validation EXCEPT ![r] =
                 [schema |-> Some(validate_schema_silver(posts_list[r])),
                  quality |-> Some(validate_data_quality(posts_list[r]))]]
            /\ pc' = [pc EXCEPT ![r] = "PERSIST"]
            /\ UNCHANGED <<now, storeVars, txStart, wmRead, posts_list, newWm,
                           result, overlaps, runHist, histVars, readerVars, sinkVars>>

\* an upsert whose conflict branch adds the new score to the stored one
silver_upsert_accumulating(rows, post, ts) ==
  IF post.post_id \in Ids(rows)
    THEN (rows \ {RowOf(rows, post.post_id)})
         \cup {[RowOf(rows, post.post_id) EXCEPT
                  !.author_username = post.author_username,
                  !.post_text_cleaned = post.post_text_cleaned,
                  !.engagement_score = @ + post.engagement_score,
                  !.post_embedding = post.post_embedding,
                  !.source_type = post.source_type,
                  !.processed_at = ts]}
    ELSE rows \cup {[post_id |-> post.post_id,
                     author_username |-> post.author_username,
                     post_text_cleaned |-> post.post_text_cleaned,
                     engagement_score |-> post.engagement_score,
                     post_embedding |-> post.post_embedding,
                     source_type |-> post.source_type,
                     created_at |-> ts, processed_at |-> ts]}

\* INSERT INTO silver.social_posts_cleaned_features ... ON CONFLICT (post_id)
\* DO UPDATE SET ..., lines 172-187; ts is CURRENT_TIMESTAMP
silver_upsert(rows, post, ts) ==
  IF post.post_id \in Ids(rows)
    THEN (rows \ {RowOf(rows, post.post_id)})
         \cup {[RowOf(rows, post.post_id) EXCEPT
                  !.author_username = post.author_username,
                  !.post_text_cleaned = post.post_text_cleaned,
                  !.engagement_score = post.engagement_score,
                  !.post_embedding = post.post_embedding,
                  !.source_type = post.source_type,
                  !.processed_at = ts]}
    ELSE rows \cup {[post_id |-> post.post_id,
                     author_username |-> post.author_username,
                     post_text_cleaned |-> post.post_text_cleaned,
                     engagement_score |-> post.engagement_score,
                     post_embedding |-> post.post_embedding,
                     source_type |-> post.source_type,
                     created_at |-> ts, processed_at |-> ts]}

\* for post in posts_list: conn.execute(INSERT ...), lines 171-187
RECURSIVE upsert_all(_, _, _)
upsert_all(rows, posts, ts) ==
  IF posts = <<>> THEN rows
  ELSE upsert_all(silver_upsert(rows, Head(posts), ts), Tail(posts), ts)

\* a PERSIST on a connection in autocommit: its upserts are visible at once
Persist_autocommit(r) ==
  /\ pc[r] = "PERSIST"
  /\ \A o \in Runs \ {r} : LockedIds(o) \cap PostIdsOf(posts_list[r]) = {}
  /\ pc' = [pc EXCEPT ![r] = "ADVANCE_WATERMARK"]
  /\ silver' = upsert_all(silver, posts_list[r], txStart[r])
  /\ UNCHANGED <<now, bronze, wm, localVars, result, overlaps, runHist, histVars, readerVars, sinkVars>>

\* PERSIST, lines 152-187: the statements run inside the transaction of the
\* connection; they wait for the rows another run has upserted and not yet
\* committed; the column type vector(384) rejects any other dimension
Persist(r) ==
  /\ pc[r] = "PERSIST"
  /\ \A o \in Runs \ {r} : LockedIds(o) \cap PostIdsOf(posts_list[r]) = {}
  /\ IF \A i \in DOMAIN posts_list[r] : posts_list[r][i].post_embedding.dim = D
       THEN /\ pc' = [pc EXCEPT ![r] = "ADVANCE_WATERMARK"]
            /\ UNCHANGED <<now, storeVars, localVars, result, overlaps, runHist,
                           histVars, readerVars, sinkVars>>
       ELSE Abort(r)

\* {"watermark": datetime.utcnow()}, line 195: the parameter is evaluated
\* before the statement is sent
AdvanceWatermark(r) ==
  /\ pc[r] = "ADVANCE_WATERMARK"
  /\ newWm' = [newWm EXCEPT ![r] = Some(now)]
  /\ pc' = [pc EXCEPT ![r] = "WRITE_WATERMARK"]
  /\ UNCHANGED <<now, storeVars, txStart, wmRead, posts_list, validation, result,
                 overlaps, runHist, histVars, readerVars, sinkVars>>

\* INSERT INTO metadata.pipeline_watermarks ... ON CONFLICT (pipeline_name)
\* DO UPDATE SET last_successful_watermark = EXCLUDED..., lines 190-195: an
\* unconditional upsert, which waits while another run holds the row
WriteWatermark(r) ==
  /\ pc[r] = "WRITE_WATERMARK"
  /\ \A o \in Runs \ {r} : ~HoldsWatermark(o)
  /\ pc' = [pc EXCEPT ![r] = "COMMIT"]
  /\ UNCHANGED <<now, storeVars, localVars, result, overlaps, runHist, histVars, readerVars, sinkVars>>

\* the bronze fields a post dict was built from
raw_of(post) ==
  [author_username |-> post.author_username, content |-> post.content,
   likes |-> post.likes, shares |-> post.shares, comments |-> post.comments]

\* the dict returned at lines 201-205
run_result(r) ==
  [processed |-> Len(posts_list[r]),
   errors |-> validation[r].schema[1].errors \o validation[r].quality[1].errors]

\* conn.commit(), line 197, and the return: the upserts of the batch and the
\* watermark become visible together
Commit(r) ==
  /\ pc[r] = "COMMIT"
  /\ silver' = upsert_all(silver, posts_list[r], txStart[r])
  /\ wm' = newWm[r]
  /\ pc' = [pc EXCEPT ![r] = "DONE"]
  /\ result' = [result EXCEPT ![r] = Some(run_result(r))]
  /\ Forget(r)
  /\ fetchedByCommitted' = fetchedByCommitted \cup batch[r]
  /\ wmBatch' = PostIdsOf(posts_list[r])
  /\ srcOf' = [id \in PostIds |->
                 IF id \in PostIdsOf(posts_list[r])
                   THEN Some(raw_of(posts_list[r][
                          CHOOSE i \in DOMAIN posts_list[r] : posts_list[r][i].post_id = id]))
                   ELSE srcOf[id]]
  /\ succession' = finished(succession, TRUE)
  /\ UNCHANGED <<now, bronze, overlaps, batch, failedAt, readerVars, sinkVars>>

\* a crash, a lost connection, an exception of the model or of the driver
Fail(r) ==
  /\ pc[r] \in InFlight
  /\ Abort(r)

\* The steps CLEAN .. VALIDATE read and write only the list of their own run,
\* so they commute with every step of the clock, of the ingestion and of the
\* other run.  They are taken as soon as they are enabled: no state of the
\* stores is lost, and the interleavings that differ only in the position of
\* these steps are explored once.
Computing(r) == pc[r] \in {"CLEAN", "DEDUPLICATE", "SCORE_AND_CLASSIFY", "EMBED", "VALIDATE"}
Quiet == \A r \in Runs : ~Computing(r)

\* the clock and the ingestion
Environment ==
  \/ Quiet /\ Tick
  \/ Quiet /\ \E raw \in RawInputs : Arrive(raw)

\* a step of a run that is under way
RunStep ==
  \/ Quiet /\ \E r \in Runs : FetchBatch(r)
  \/ \E r \in Runs : Clean(r)
  \/ \E r \in Runs : Deduplicate(r)
  \/ \E r \in Runs : ScoreAndClassify(r)
  \/ \E r \in Runs : Embed(r)
  \/ \E r \in Runs : Validate(r)
  \/ Quiet /\ \E r \in Runs : Persist(r)
  \/ Quiet /\ \E r \in Runs : AdvanceWatermark(r)
  \/ Quiet /\ \E r \in Runs : WriteWatermark(r)
  \/ Quiet /\ \E r \in Runs : Commit(r)
  \/ \E r \in Runs : (Quiet \/ Computing(r)) /\ Fail(r)

\* process_bronze_to_silver is called when no run is under way
StartRun ==
  /\ Quiet
  /\ LoadWatermark(1)
  /\ succession' = started(succession)
  /\ UNCHANGED overlaps

\* Runs of the pipeline one after the other, any number of them, with posts
\* arriving at any time.
Next == Environment \/ StartRun \/ RunStep

Spec == Init /\ [][Next]_vars

\* Runs that overlap: nothing in the code or in the schema keeps a second
\* process_bronze_to_silver from starting while one is under way.  The runs
\* are interchangeable, so the second is the one started while the first is
\* under way; the first is started once, over the posts that have arrived.
StartFirst == pc[1] = "IDLE" /\ StartRun

ArriveBefore == pc[1] = "IDLE" /\ \E raw \in RawInputs : Arrive(raw)

StartOverlapping ==
  /\ Quiet
  /\ pc[1] \in InFlight
  /\ overlaps < MaxOverlaps
  /\ overlaps' = overlaps + 1
  /\ succession' = NoPair
  /\ LoadWatermark(2)

NextConcurrent ==
  \/ Quiet /\ Tick
  \/ ArriveBefore
  \/ StartFirst
  \/ StartOverlapping
  \/ RunStep

SpecConcurrent == Init /\ [][NextConcurrent]_vars

\* Overlapping runs with a post arriving while the first run is under way
\* and the second has not started.
ArriveDuring ==
  /\ Quiet
  /\ pc[1] \in InFlight
  /\ overlaps = 0
  /\ \E raw \in RawInputs : Arrive(raw)

NextOverlap ==
  \/ Quiet /\ Tick
  \/ ArriveBefore
  \/ ArriveDuring
  \/ StartFirst
  \/ StartOverlapping
  \/ RunStep

SpecOverlap == Init /\ [][NextOverlap]_vars

\* ------------------------------------------------------ similarity search
RECURSIVE dot(_, _)
dot(u, v) == IF u = <<>> THEN 0 ELSE (Head(u) * Head(v)) + dot(Tail(u), Tail(v))

\* the cosine of two vectors, dot / (norm * norm), as <<dot, norm^2 * norm^2>>
cosine_similarity(vec1, vec2) ==
  <<dot(vec1.head, vec2.head), dot(vec1.head, vec1.head) * dot(vec2.head, vec2.head)>>

\* 0.0 / 0.0
IsNaN(x) == x[2] = 0
SignedSquare(x) == IF x[1] >= 0 THEN x[1] * x[1] ELSE 0 - (x[1] * x[1])
\* x >= y and x > y on floats: false when either is NaN
FloatGE(x, y) == ~IsNaN(x) /\ ~IsNaN(y) /\ SignedSquare(x) * y[2] >= SignedSquare(y) * x[2]
FloatGT(x, y) == ~IsNaN(x) /\ ~IsNaN(y) /\ SignedSquare(x) * y[2] > SignedSquare(y) * x[2]
\* x >= y on PostgreSQL float8: NaN equals NaN and is above every number
PgGE(x, y) == IF IsNaN(x) THEN TRUE ELSE IF IsNaN(y) THEN FALSE ELSE FloatGE(x, y)

Min(a, b) == IF a <= b THEN a ELSE b

\* the orders of the rows of S that ORDER BY allows: rows that compare equal
\* come in any order
Orderings(S, Before(_, _)) ==
  {o \in [1..Cardinality(S) -> S] :
     /\ \A i, j \in DOMAIN o : i # j => o[i] # o[j]
     /\ \A i, j \in DOMAIN o : i < j => Before(o[i], o[j])}

\* GoldLayerProcessor.generate_query_embedding
generate_query_embedding(query) == encode(query)

\* one returned dict, gold/process.py lines 155-162
similar_post(row, similarity) ==
  [post_id |-> row.post_id, post_text |-> row.post_text_cleaned,
   similarity_score |-> similarity, engagement_score |-> row.engagement_score,
   source_type |-> row.source_type, created_at |-> row.created_at]

\* a search whose inner query has LIMIT without ORDER BY
find_similar_posts_unordered(rows, query, top_k, engagement_threshold, min_similarity) ==
  LET query_embedding == generate_query_embedding(query)
      similarity(row) == cosine_similarity(row.post_embedding, query_embedding)
      qualifying == {row \in rows : /\ row.engagement_score >= engagement_threshold
                                    /\ PgGE(similarity(row), min_similarity)}
      similarity_scores ==
        {SubSeq(o, 1, Min(top_k, Len(o))) : o \in Orderings(qualifying, LAMBDA x, y : TRUE)}
  IN UNION {
       {[i \in DOMAIN o |-> similar_post(o[i], similarity(o[i]))] :
          o \in Orderings({cte[i] : i \in DOMAIN cte},
                          LAMBDA x, y : PgGE(similarity(x), similarity(y)))} :
       cte \in similarity_scores}

\* GoldLayerProcessor.find_similar_posts: the lists the statement can return.
\* The inner query keeps the rows that pass both filters, orders them by
\* cosine distance (ascending, NaN last) and keeps the first top_k; the outer
\* query orders them by cosine_similarity DESC (NaN first).
find_similar_posts(rows, query, top_k, engagement_threshold, min_similarity) ==
  LET query_embedding == generate_query_embedding(query)
      similarity(row) == cosine_similarity(row.post_embedding, query_embedding)
      qualifying == {row \in rows : /\ row.engagement_score >= engagement_threshold
                                    /\ PgGE(similarity(row), min_similarity)}
      nearer(x, y) == IF IsNaN(similarity(y)) THEN TRUE
                      ELSE IF IsNaN(similarity(x)) THEN FALSE
                      ELSE FloatGE(similarity(x), similarity(y))
      similarity_scores ==
        {SubSeq(o, 1, Min(top_k, Len(o))) : o \in Orderings(qualifying, nearer)}
  IN UNION {
       {[i \in DOMAIN o |-> similar_post(o[i], similarity(o[i]))] :
          o \in Orderings({cte[i] : i \in DOMAIN cte
                                    \cap {j \in DOMAIN cte :
                                            PgGE(similarity(cte[j]), min_similarity)}},
                          LAMBDA x, y : PgGE(similarity(x), similarity(y)))} :
       cte \in similarity_scores}

\* SilverToGoldProcessor.generate_query_embedding: [0.0] * 384
generate_query_embedding_dummy(query) == [dim |-> D, head |-> <<0, 0>>]

\* list.sort(key=..., reverse=True): stable, the greater key first
RECURSIVE sort_reverse(_, _)
sort_reverse(pairs, sorted) ==
  IF pairs = <<>> THEN sorted
  ELSE LET x == Head(pairs)
           \* x goes behind every element that is not less than it
           keep == {i \in DOMAIN sorted : ~FloatGT(x[1], sorted[i][1])}
           k == IF keep = {} THEN 0 ELSE CHOOSE i \in keep : \A j \in keep : j <= i
       IN sort_reverse(Tail(pairs),
                       SubSeq(sorted, 1, k) \o <<x>> \o SubSeq(sorted, k + 1, Len(sorted)))

\* the (similarity, post) pairs of the posts that pass both filters
RECURSIVE similar_pairs(_, _, _, _)
similar_pairs(posts, query_embedding, min_similarity, engagement_threshold) ==
  IF posts = <<>> THEN <<>>
  ELSE LET post == Head(posts)
           similarity == cosine_similarity(query_embedding, post.post_embedding)
           rest == similar_pairs(Tail(posts), query_embedding, min_similarity,
                                 engagement_threshold)
       IN IF post.engagement_score < engagement_threshold THEN rest
          ELSE IF FloatGE(similarity, min_similarity) THEN <<<<similarity, post>>>> \o rest
          ELSE rest

\* SilverToGoldProcessor.find_similar_posts
find_similar_posts_silver(query, posts, top_k, min_similarity, engagement_threshold) ==
  LET query_embedding == generate_query_embedding_dummy(query)
      similarities ==
        sort_reverse(similar_pairs(posts, query_embedding, min_similarity,
                                   engagement_threshold), <<>>)
      top == SubSeq(similarities, 1, Min(top_k, Len(similarities)))
  IN [i \in DOMAIN top |-> similar_post(top[i][2], top[i][1])]

\* the arguments of a search: query texts, top_k, engagement thresholds (in
\* tenths) and minimum similarities (0.0 and 0.8)
Queries == {<<"a">>, <<"A">>, <<>>}
TopKs == 1..MaxTopK
Thresholds == {0, 5}
MinSimilarities == {<<0, 1>>, <<4, 25>>}

Searched(impl, query, top_k, engagement_threshold, min_similarity, out) ==
  /\ search' = Some([impl |-> impl, query |-> query, top_k |-> top_k,
                     engagement_threshold |-> engagement_threshold,
                     min_similarity |-> min_similarity, out |-> out])
  /\ UNCHANGED <<now, storeVars, pc, localVars, result, overlaps, runHist, histVars,
                 reply, sinkVars>>

\* POST /search, GoldLayerProcessor.find_similar_posts on the Post Store
SearchGold ==
  \E query \in Queries, top_k \in TopKs, engagement_threshold \in Thresholds,
     min_similarity \in MinSimilarities :
    \E out \in find_similar_posts(silver, query, top_k, engagement_threshold,
                                  min_similarity) :
      Searched("gold", query, top_k, engagement_threshold, min_similarity, out)

\* SilverToGoldProcessor.find_similar_posts on the posts of the Post Store,
\* in the order the caller has them
SearchSilver ==
  \E query \in Queries, top_k \in TopKs, engagement_threshold \in Thresholds,
     min_similarity \in MinSimilarities :
    \E posts \in Orderings(silver, LAMBDA x, y : TRUE) :
      Searched("silver", query, top_k, engagement_threshold, min_similarity,
               find_similar_posts_silver(query, posts, top_k, min_similarity,
                                         engagement_threshold))

\* the ProcessedPosts a run makes of a batch of bronze rows
process_batch(bronze_posts) ==
  embed_posts(score_posts(deduplicate_posts(clean_posts(fetch_posts(bronze_posts)))))

\* the posts raws arrive at time ts
RECURSIVE arrivals(_, _, _)
arrivals(rows, raws, ts) ==
  IF raws = <<>> THEN rows
  ELSE arrivals(bronze_upsert(rows, Cardinality(rows) + 1, Head(raws), ts), Tail(raws), ts)

RawLists == UNION {[1..n -> RawInputs] : n \in 0..MaxPosts}

\* The searches start from a Post Store the pipeline has written: the first
\* k posts of a list arrived at time 0 and a run committed them, the others
\* arrived at time 1 and the next run committed them.  The runs are over:
\* the variables of the runs and the histories start afresh.
InitSearch ==
  \E raws \in RawLists, k \in 0..MaxPosts :
    LET n == Len(raws)
        first == arrivals({}, SubSeq(raws, 1, k), 0)
        all == arrivals(first, SubSeq(raws, k + 1, n), 1)
        second == NewPosts(all, IF k > 0 THEN 0 ELSE 1 - Day)
        stored == IF k > 0 THEN upsert_all({}, process_batch(first), 0) ELSE {}
    IN /\ k <= n
       /\ now = (IF n > k THEN 1 ELSE 0)
       /\ bronze = all
       /\ silver = (IF n > k THEN upsert_all(stored, process_batch(second), 1) ELSE stored)
       /\ wm = (IF n = 0 THEN None ELSE Some(now))
       /\ pc = [r \in Runs |-> "IDLE"]
       /\ txStart = [r \in Runs |-> 0]
       /\ wmRead = [r \in Runs |-> None]
       /\ posts_list = [r \in Runs |-> <<>>]
       /\ validation = [r \in Runs |-> NoValidation]
       /\ newWm = [r \in Runs |-> None]
       /\ result = [r \in Runs |-> None]
       /\ overlaps = 0
       /\ batch = [r \in Runs |-> {}]
       /\ failedAt = [r \in Runs |-> "IDLE"]
       /\ fetchedByCommitted = {}
       /\ wmBatch = {}
       /\ srcOf = [i \in PostIds |-> None]
       /\ succession = NoPair
       /\ search = None
       /\ reply = None
       /\ last_ingest = None
       /\ insights_fact = {}

NextSearch == SearchGold \/ SearchSilver

SpecSearch == InitSearch /\ [][NextSearch]_vars

\* ------------------------------------------------------ marketing insights
\* A float that is not a similarity (an engagement score, a percentile, a
\* mean) is the pair <<num, den>>, den > 0, standing for num / den.
Ratio(num, den) == <<num, den>>
\* a stored engagement_score, kept in tenths, as a float
Score(tenths) == Ratio(tenths, 10)
RatGE(x, y) == x[1] * y[2] >= y[1] * x[2]
RatLE(x, y) == x[1] * y[2] <= y[1] * x[2]
RatEq(x, y) == x[1] * y[2] = y[1] * x[2]

\* sorted(a) of a list of integers
RECURSIVE sort_ascending(_, _)
sort_ascending(a, sorted) ==
  IF a = <<>> THEN sorted
  ELSE LET keep == {i \in DOMAIN sorted : sorted[i] <= Head(a)}
           k == IF keep = {} THEN 0 ELSE CHOOSE i \in keep : \A j \in keep : j <= i
       IN sort_ascending(Tail(a),
                         SubSeq(sorted, 1, k) \o <<Head(a)>> \o SubSeq(sorted, k + 1, Len(sorted)))

RECURSIVE sum(_)
sum(a) == IF a = <<>> THEN 0 ELSE Head(a) + sum(Tail(a))

\* max(a) of a non-empty list
max(a) == CHOOSE x \in Range(a) : \A y \in Range(a) : y <= x

\* np.percentile(a, q) of a non-empty list of scores in tenths: the value at
\* position q / 100 * (n - 1) of the sorted list, interpolated linearly
\* between the two ranks around it
percentile(a, q) ==
  LET sorted == sort_ascending(a, <<>>)
      n == Len(sorted)
      position == q * (n - 1)
      below == position \div 100
      above == Min(below + 1, n - 1)
      fraction == position % 100
  IN Ratio((100 * sorted[below + 1]) + (fraction * (sorted[above + 1] - sorted[below + 1])),
           1000)

\* re.findall(r'\b\w+\b', text): the maximal runs of word characters
RECURSIVE word_runs(_, _)
word_runs(text, run) ==
  IF text = <<>> THEN (IF run = <<>> THEN <<>> ELSE <<run>>)
  ELSE IF Head(text) \in WordChars THEN word_runs(Tail(text), Append(run, Head(text)))
  ELSE (IF run = <<>> THEN <<>> ELSE <<run>>) \o word_runs(Tail(text), <<>>)

\* re.findall(r'\b\w{n,}\b', text)
findall_words(text, n) ==
  LET runs == word_runs(text, <<>>)
      long == {i \in DOMAIN runs : Len(runs[i]) >= n}
      RECURSIVE pick(_)
      pick(i) == IF i > Len(runs) THEN <<>>
                 ELSE IF i \in long THEN <<runs[i]>> \o pick(i + 1)
                 ELSE pick(i + 1)
  IN pick(1)

\* the words SilverToGoldProcessor._extract_top_topics leaves out
stopwords_silver ==
  { <<"t","h","e">>, <<"a","n","d">>, <<"f","o","r">>, <<"w","i","t","h">>,
    <<"t","h","i","s">>, <<"t","h","a","t">>, <<"w","a","s">>, <<"w","e","r","e">>,
    <<"a","r","e">>, <<"y","o","u">>, <<"y","o","u","r">>, <<"h","a","v","e">>,
    <<"h","a","s">>, <<"h","a","d">>, <<"t","h","e","y">>, <<"t","h","e","i","r">> }

\* word_counts[word] += 1 for every word: the (word, count) items of the
\* dict, in the order in which the words were first met
RECURSIVE count_words(_, _)
count_words(words, word_counts) ==
  IF words = <<>> THEN word_counts
  ELSE LET met == {i \in DOMAIN word_counts : word_counts[i][1] = Head(words)}
       IN count_words(Tail(words),
            IF met = {} THEN Append(word_counts, <<Head(words), 1>>)
            ELSE [i \in DOMAIN word_counts |->
                    IF i \in met THEN <<word_counts[i][1], word_counts[i][2] + 1>>
                    ELSE word_counts[i]])

\* sorted(items, key=lambda x: x[1], reverse=True): stable
RECURSIVE sort_by_count(_, _)
sort_by_count(items, sorted) ==
  IF items = <<>> THEN sorted
  ELSE LET keep == {i \in DOMAIN sorted : sorted[i][2] >= Head(items)[2]}
           k == IF keep = {} THEN 0 ELSE CHOOSE i \in keep : \A j \in keep : j <= i
       IN sort_by_count(Tail(items),
                        SubSeq(sorted, 1, k) \o <<Head(items)>> \o SubSeq(sorted, k + 1, Len(sorted)))

\* the words of the posts that count, in the order of the posts
RECURSIVE topic_words(_)
topic_words(posts) ==
  IF posts = <<>> THEN <<>>
  ELSE LET words == findall_words(lower(Head(posts).post_text_cleaned), 3)
           RECURSIVE kept(_)
           kept(i) == IF i > Len(words) THEN <<>>
                      ELSE IF words[i] \notin stopwords_silver THEN <<words[i]>> \o kept(i + 1)
                      ELSE kept(i + 1)
       IN kept(1) \o topic_words(Tail(posts))

\* SilverToGoldProcessor._extract_top_topics
extract_top_topics_silver(posts, top_n) ==
  LET sorted == sort_by_count(count_words(topic_words(posts), <<>>), <<>>)
      top_words == SubSeq(sorted, 1, Min(top_n, Len(sorted)))
  IN [i \in DOMAIN top_words |-> [topic |-> top_words[i][1], count |-> top_words[i][2]]]

\* top_k=10 in the two searches of GoldLayerProcessor.get_marketing_insights
InsightsTopK == 10
\* engagement_threshold=0.75, in hundredths
HighEngagement == 75
\* p['engagement_score'] < 0.25, in hundredths
LowEngagement == 25
\* top_n=5
TopN == 5

\* get_marketing_insights without the filter on the content gaps
get_marketing_insights_unfiltered(rows, query) ==
  { [query |-> query,
     high_value_content |-> high_value,
     content_gaps |-> content_gaps] :
      high_value \in find_similar_posts(rows, query, InsightsTopK,
                                        (HighEngagement + 9) \div 10, <<0, 1>>),
      content_gaps \in find_similar_posts(rows, query, InsightsTopK, 0, <<0, 1>>) }

\* GoldLayerProcessor.get_marketing_insights, the definition of lines 343-364:
\* it comes second in the class body and replaces the one of lines 167-241,
\* which no call can reach.  The bundles it can return: find_similar_posts
\* is called twice.  Stored scores are whole tenths, so score >= 0.75 selects
\* the scores of at least 8 tenths.
get_marketing_insights(rows, query) ==
  { [query |-> query,
     high_value_content |-> high_value,
     content_gaps |-> SelectSeq(content_gaps,
                                LAMBDA p : 10 * p.engagement_score < LowEngagement)] :
      high_value \in find_similar_posts(rows, query, InsightsTopK,
                                        (HighEngagement + 9) \div 10, <<0, 1>>),
      content_gaps \in find_similar_posts(rows, query, InsightsTopK, 0, <<0, 1>>) }

\* GoldInsight(...), silver/processor.py lines 100-107
gold_insight(query, post, created_at) ==
  [query_text |-> query, post_id |-> post.post_id,
   cosine_similarity_score |-> post.similarity_score,
   engagement_score |-> post.engagement_score,
   post_text_cleaned |-> post.post_text, source_type |-> post.source_type,
   created_at |-> created_at]

\* SilverToGoldProcessor.generate_marketing_insights; utcnow is the time of
\* the call
generate_marketing_insights(query, posts, top_k, similarity_threshold, utcnow) ==
  IF posts = <<>>
    THEN [high_value_content |-> <<>>, content_gaps |-> <<>>,
          top_performing_topics |-> <<>>,
          engagement_metrics |-> [avg_engagement |-> Ratio(0, 1),
                                  max_engagement |-> Ratio(0, 1)]]
  ELSE
    LET engagement_scores == [i \in DOMAIN posts |-> posts[i].engagement_score]
        avg_engagement == Ratio(sum(engagement_scores), 10 * Len(engagement_scores))
        max_engagement == Score(max(engagement_scores))
        engagement_threshold_high == percentile(engagement_scores, 75)
        engagement_threshold_low == percentile(engagement_scores, 25)
        similar_posts == find_similar_posts_silver(query, posts, top_k * 2,
                                                   similarity_threshold, 0)
        is_high(post) == RatGE(Score(post.engagement_score), engagement_threshold_high)
        is_low(post) == RatLE(Score(post.engagement_score), engagement_threshold_low)
        high_value == SelectSeq(similar_posts, is_high)
        content_gaps == SelectSeq(similar_posts, LAMBDA post : ~is_high(post) /\ is_low(post))
        insights(list) == [i \in DOMAIN list |-> gold_insight(query, list[i], utcnow)]
    IN [high_value_content |->
          insights(SubSeq(high_value, 1, Min(top_k, Len(high_value)))),
        content_gaps |->
          insights(SubSeq(content_gaps, 1, Min(top_k, Len(content_gaps)))),
        top_performing_topics |-> extract_top_topics_silver(posts, TopN),
        engagement_metrics |->
          [avg_engagement |-> avg_engagement,
           max_engagement |-> max_engagement,
           high_engagement_threshold |-> engagement_threshold_high,
           low_engagement_threshold |-> engagement_threshold_low]]

\* ------------------------------------------------------------- api/main.py
\* what can go wrong in a call of the processor: the embedding provider
\* raises in generate_query_embedding, or the engine raises in connect() or
\* execute()
Faults == {"none", "EmbeddingFailure", "StoreUnavailable"}

\* QueryRequest
Requests == [query : Queries, top_k : TopKs, engagement_threshold : Thresholds]

\* raise HTTPException(status_code=500, detail=str(e))
HTTPException(status_code, detail) == [status_code |-> status_code, detail |-> detail]
\* return {"status": "success", ...}
Success(body) == [status_code |-> 200, body |-> body]

\* a handler that answers a failure with an empty list
search_similar_posts_swallowing(rows, request, fault) ==
  IF fault # "none"
    THEN {Success([status |-> "success", results |-> <<>>])}
  ELSE {Success([status |-> "success", results |-> results]) :
          results \in find_similar_posts(rows, request.query, request.top_k,
                                         request.engagement_threshold, <<0, 1>>)}

\* POST /api/search: the responses the handler can give when the call of
\* processor.find_similar_posts meets `fault`
search_similar_posts(rows, request, fault) ==
  IF fault # "none"
    THEN {HTTPException(500, fault)}
  ELSE {Success([status |-> "success", results |-> results]) :
          results \in find_similar_posts(rows, request.query, request.top_k,
                                         request.engagement_threshold, <<0, 1>>)}

\* POST /api/insights: request.top_k and request.engagement_threshold are
\* not passed on
api_get_marketing_insights(rows, request, fault) ==
  IF fault # "none"
    THEN {HTTPException(500, fault)}
  ELSE {Success([status |-> "success", insights |-> insights]) :
          insights \in get_marketing_insights(rows, request.query)}

\* the vectors cosine_similarity is called with: embeddings of the provider,
\* the dummy query embedding and a vector pointing away
Vectors ==
  {[dim |-> D, head |-> head] :
     head \in {<<0, 0>>, <<1, 0>>, <<0, 1>>, <<3, 4>>, <<4, 3>>, <<-3, 4>>}}

\* the caller makes one call at a time
Idle == reply = None

\* a call that returns r and stamps the rows of the Post Store as read
Replied_stamping(r) ==
  /\ reply' = Some(r)
  /\ silver' = {[row EXCEPT !.processed_at = now] : row \in silver}
  /\ UNCHANGED <<now, bronze, wm, pc, localVars, result, overlaps, runHist, histVars,
                 search, sinkVars>>

\* a call returns r to the caller
Replied(r) ==
  /\ reply' = Some(r)
  /\ UNCHANGED <<now, storeVars, pc, localVars, result, overlaps, runHist, histVars,
                 search, sinkVars>>

\* the caller has taken the reply
Taken ==
  /\ reply # None
  /\ reply' = None
  /\ UNCHANGED <<now, storeVars, pc, localVars, result, overlaps, runHist, histVars,
                 search, sinkVars>>

\* a call of POST /api/search
ApiSearchOf(requests, faults) ==
  /\ Idle
  /\ \E request \in requests, fault \in faults :
       \E out \in search_similar_posts(silver, request, fault) :
         Replied([op |-> "search_similar_posts", request |-> request, fault |-> fault,
                  out |-> out])

ApiSearch == ApiSearchOf(Requests, Faults)

\* a call of POST /api/insights
ApiInsightsOf(requests, faults) ==
  /\ Idle
  /\ \E request \in requests, fault \in faults :
       \E out \in api_get_marketing_insights(silver, request, fault) :
         Replied([op |-> "get_marketing_insights", request |-> request, fault |-> fault,
                  out |-> out])

ApiInsights == ApiInsightsOf(Requests, Faults)

\* SilverToGoldProcessor.generate_marketing_insights on the posts of the Post
\* Store, in the order the caller has them
GenerateInsights ==
  /\ Idle
  /\ \E query \in Queries, top_k \in TopKs, similarity_threshold \in MinSimilarities :
       \E posts \in Orderings(silver, LAMBDA x, y : TRUE) :
         Replied([op |-> "generate_marketing_insights", query |-> query, top_k |-> top_k,
                  similarity_threshold |-> similarity_threshold, posts |-> posts,
                  out |-> generate_marketing_insights(query, posts, top_k,
                                                      similarity_threshold, now)])

\* SilverToGoldProcessor.cosine_similarity
CosineSimilarity ==
  /\ Idle
  /\ \E vec1 \in Vectors, vec2 \in Vectors :
       Replied([op |-> "cosine_similarity", vec1 |-> vec1, vec2 |-> vec2,
                out |-> cosine_similarity(vec1, vec2)])

\* The posts the queries are made over: those of RawInputs, and a post with
\* five likes (engagement score 1.0).
QueryInputs ==
  RawInputs \cup
  { [author_username |-> <<"u">>, content |-> <<"b">>,
     likes |-> Some(5), shares |-> Some(0), comments |-> Some(0)] }

\* four posts with the engagement scores 10, 5, 1 and 0 whose similarity to
\* the query "a" decreases in this order (1.0, 0.96, 0.8, 0.6)
ScenarioInputs ==
  << [author_username |-> <<"u">>, content |-> <<"a">>,
      likes |-> Some(50), shares |-> Some(0), comments |-> Some(0)],
     [author_username |-> <<"u">>, content |-> <<"A", "b">>,
      likes |-> Some(25), shares |-> Some(0), comments |-> Some(0)],
     [author_username |-> <<"u">>, content |-> <<"b">>,
      likes |-> Some(5), shares |-> Some(0), comments |-> Some(0)],
     [author_username |-> <<"u">>, content |-> <<"#">>,
      likes |-> Some(0), shares |-> Some(0), comments |-> Some(0)] >>

QueryLists == UNION {[1..n -> QueryInputs] : n \in 0..MaxPosts} \cup {ScenarioInputs}

\* The queries start from a Post Store the pipeline has written, as the
\* searches do: the first k posts of a list arrived at time 0 and a run
\* committed them, the others arrived at time 1 and the next run committed
\* them.
InitQuery ==
  \E raws \in QueryLists :
    \E k \in 0..Len(raws) :
      LET n == Len(raws)
          first == arrivals({}, SubSeq(raws, 1, k), 0)
          all == arrivals(first, SubSeq(raws, k + 1, n), 1)
          second == NewPosts(all, IF k > 0 THEN 0 ELSE 1 - Day)
          stored == IF k > 0 THEN upsert_all({}, process_batch(first), 0) ELSE {}
      IN /\ now = (IF n > k THEN 1 ELSE 0)
         /\ bronze = all
         /\ silver = (IF n > k THEN upsert_all(stored, process_batch(second), 1) ELSE stored)
         /\ wm = (IF n = 0 THEN None ELSE Some(now))
         /\ pc = [r \in Runs |-> "IDLE"]
         /\ txStart = [r \in Runs |-> 0]
         /\ wmRead = [r \in Runs |-> None]
         /\ posts_list = [r \in Runs |-> <<>>]
         /\ validation = [r \in Runs |-> NoValidation]
         /\ newWm = [r \in Runs |-> None]
         /\ result = [r \in Runs |-> None]
         /\ overlaps = 0
         /\ batch = [r \in Runs |-> {}]
         /\ failedAt = [r \in Runs |-> "IDLE"]
         /\ fetchedByCommitted = {}
         /\ wmBatch = {}
         /\ srcOf = [i \in PostIds |-> None]
         /\ succession = NoPair
         /\ search = None
         /\ reply = None
         /\ last_ingest = None
         /\ insights_fact = {}

NextQuery == ApiSearch \/ ApiInsights \/ GenerateInsights \/ CosineSimilarity \/ Taken

SpecQuery == InitQuery /\ [][NextQuery]_vars

\* Queries while the pipeline runs.  A query reads the committed rows in a
\* transaction of its own, so it takes its step between the steps of a run
\* that touch the database.  The requests are those with the defaults of
\* QueryRequest (top_k = 10, engagement_threshold = 0.0) and nothing fails.
DefaultRequests ==
  {[query |-> <<"a">>, top_k |-> InsightsTopK, engagement_threshold |-> 0]}

SearchDuringRuns == Quiet /\ ApiSearchOf(DefaultRequests, {"none"})

InsightsDuringRuns == Quiet /\ ApiInsightsOf(DefaultRequests, {"none"})

NextQueryRun ==
  \/ Environment
  \/ StartRun
  \/ RunStep
  \/ SearchDuringRuns
  \/ InsightsDuringRuns
  \/ Quiet /\ Taken

SpecQueryRun == Init /\ [][NextQueryRun]_vars

\* the rows save_insights_to_db merges, lines 299-329: those of the high-value
\* content, then those of the content gaps; post.get('id', uuid4()) finds no
\* 'id' in a returned post, so every row has a new id
insight_rows(table, insights, query, time) ==
  LET high == insights.high_value_content
      gaps == insights.content_gaps
      row(i, post, insight_type) ==
        [id |-> Cardinality(table) + i, query_text |-> query, post_id |-> post.post_id,
         cosine_similarity_score |-> post.similarity_score,
         engagement_score |-> post.engagement_score,
         post_text_cleaned |-> post.post_text, source_type |-> post.source_type,
         metadata |-> [insight_type |-> insight_type, created_at |-> time]]
  IN [i \in 1..(Len(high) + Len(gaps)) |->
        IF i <= Len(high) THEN row(i, high[i], "high_value")
                          ELSE row(i, gaps[i - Len(high)], "content_gap")]

\* a save whose session commits after every merge
save_insights_to_db_autocommit(table, insights, query, failing, time) ==
  LET rows == insight_rows(table, insights, query, time)
      merged == IF failing = 0 THEN Len(rows) ELSE failing - 1
  IN [table |-> table \cup {rows[i] : i \in 1..merged},
      raised |-> IF failing = 0 THEN None ELSE Some("Exception")]

\* GoldLayerProcessor.save_insights_to_db, lines 287-341: the committed rows
\* of gold.marketing_insights_fact after the call and what the call raises.
\* failing = 0: nothing fails; failing = k: the k-th merge raises; failing =
\* number of rows + 1: the commit raises.  The except branch rolls the
\* session back and raises again.
save_insights_to_db(table, insights, query, failing, time) ==
  LET rows == insight_rows(table, insights, query, time)
  IN IF failing = 0
       THEN [table |-> table \cup Range(rows), raised |-> None]
       ELSE [table |-> table, raised |-> Some("Exception")]

\* a caller saves a bundle get_marketing_insights returns for the committed
\* posts
SaveInsights ==
  /\ Idle
  /\ Cardinality(insights_fact) < MaxPosts
  /\ \E request \in DefaultRequests :
       \E insights \in get_marketing_insights(silver, request.query) :
         \E failing \in 0..(Len(insights.high_value_content) + Len(insights.content_gaps) + 1) :
           LET out == save_insights_to_db(insights_fact, insights, request.query, failing, now)
           IN /\ insights_fact' = out.table
              /\ reply' = Some([op |-> "save_insights_to_db", insights |-> insights,
                                query |-> request.query, failing |-> failing,
                                raised |-> out.raised])
              /\ UNCHANGED <<now, storeVars, pc, localVars, result, overlaps, runHist,
                             histVars, search, last_ingest>>

NextSave == SaveInsights \/ Taken

SpecSave == InitQuery /\ [][NextSave]_vars

\* ------------------------------------------- operations called on their own
\* the words GoldLayerProcessor._extract_top_topics leaves out
stopwords_gold ==
  { <<"t","h","i","s">>, <<"t","h","a","t">>, <<"w","i","t","h">>, <<"h","a","v","e">>,
    <<"f","r","o","m">>, <<"y","o","u","r">>, <<"t","h","e","y">>,
    <<"t","h","e","i","r">>, <<"t","h","e","r","e">>, <<"w","h","a","t">>,
    <<"w","h","e","n">>, <<"w","h","e","r","e">>, <<"w","h","i","c","h">>,
    <<"w","i","l","l">>, <<"w","o","u","l","d">>, <<"b","e","e","n">>,
    <<"a","l","s","o">> }

\* GoldLayerProcessor._extract_top_topics; a score is count / max_count
extract_top_topics(posts, top_n) ==
  LET isdigit(word) == \A i \in DOMAIN word : word[i] \in Digits
      RECURSIVE counted(_)
      counted(ps) ==
        IF ps = <<>> THEN <<>>
        ELSE SelectSeq(findall_words(lower(Head(ps).post_text), 4),
                       LAMBDA word : word \notin stopwords_gold /\ ~isdigit(word))
             \o counted(Tail(ps))
      sorted_words == sort_by_count(count_words(counted(posts), <<>>), <<>>)
      max_count == IF sorted_words # <<>> THEN sorted_words[1][2] ELSE 1
      top == SubSeq(sorted_words, 1, Min(top_n, Len(sorted_words)))
  IN [i \in DOMAIN top |-> [topic |-> top[i][1], score |-> Ratio(top[i][2], max_count)]]

\* texts of posts: "nice good", "Good 2024 abc", "this nice"
TopicTexts ==
  { <<"n","i","c","e"," ","g","o","o","d">>,
    <<"G","o","o","d"," ","2","0","2","4"," ","a","b","c">>,
    <<"t","h","i","s"," ","n","i","c","e">> }

\* a call of _extract_top_topics, of the gold or of the silver processor, on
\* posts with the given texts
ExtractTopTopics ==
  /\ Idle
  /\ \E n \in 0..MaxPosts, top_n \in TopKs \cup {TopN} :
       \E texts \in [1..n -> TopicTexts] :
         \/ Replied([op |-> "_extract_top_topics", impl |-> "gold", texts |-> texts,
                     top_n |-> top_n,
                     out |-> extract_top_topics(
                               [i \in DOMAIN texts |-> [post_text |-> texts[i]]], top_n)])
         \/ Replied([op |-> "_extract_top_topics", impl |-> "silver", texts |-> texts,
                     top_n |-> top_n,
                     out |-> extract_top_topics_silver(
                               [i \in DOMAIN texts |-> [post_text_cleaned |-> texts[i]]],
                               top_n)])

\* contents of posts: "a", "A ", " a", "b"
DedupContents == {<<"a">>, <<"A", " ">>, <<" ", "a">>, <<"b">>}

\* a call of deduplicate_posts on a list of posts
DeduplicatePosts ==
  /\ Idle
  /\ \E n \in 0..MaxPosts :
       \E contents \in [1..n -> DedupContents] :
         LET posts == [i \in 1..n |-> [post_id |-> i, content |-> contents[i]]]
         IN Replied([op |-> "deduplicate_posts", posts |-> posts,
                     out |-> deduplicate_posts(posts)])

\* authors "u", "Pixel", "test" and contents "a", "pixel", "A Test"
ClassifyInputs ==
  [author : {<<"u">>, <<"P","i","x","e","l">>, <<"t","e","s","t">>},
   content : {<<"a">>, <<"p","i","x","e","l">>, <<"A"," ","T","e","s","t">>}]

\* a call of classify_source_type with the keywords the pipeline passes
ClassifySourceType ==
  /\ Idle
  /\ \E post \in ClassifyInputs :
       Replied([op |-> "classify_source_type", author |-> post.author,
                content |-> post.content,
                out |-> classify_source_type(post.author, post.content,
                                             get_competitor_keywords)])

\* a call of calculate_engagement_score
CalculateEngagementScore ==
  /\ Idle
  /\ \E likes \in 0..MaxCount, shares \in 0..MaxCount, comments \in 0..MaxCount :
       Replied([op |-> "calculate_engagement_score", likes |-> likes, shares |-> shares,
                comments |-> comments,
                out |-> calculate_engagement_score(likes, shares, comments)])

\* the posts a scrape finds: db.py writes no likes, shares or comments
ScrapedPosts == {raw \in RawInputs : raw.likes = None /\ raw.shares = None}

\* a main that saves the timestamp before it upserts the posts
main_saving_first(rows, timestamp_file, companies, all_posts, fault, time) ==
  IF companies = <<>>
    THEN [bronze |-> rows, timestamp_file |-> timestamp_file, raised |-> None]
  ELSE IF all_posts = <<>>
    THEN [bronze |-> rows, timestamp_file |-> timestamp_file, raised |-> None]
  ELSE IF fault = "StoreUnavailable"
    THEN [bronze |-> rows, timestamp_file |-> Some(time), raised |-> Some(fault)]
  ELSE [bronze |-> arrivals(rows, all_posts, time), timestamp_file |-> Some(time),
        raised |-> IF fault = "none" THEN None ELSE Some(fault)]

\* main() of the ingestion, lines 34-55: what it leaves in the bronze table
\* and in TIMESTAMP_FILE and what it raises, when the scrapes return all_posts
\* at `time`.  fault: upsert_bronze_posts raises before its commit
\* ("StoreUnavailable"), or the process is killed between the upsert and
\* save_ingest_time ("Killed").
main(rows, timestamp_file, companies, all_posts, fault, time) ==
  IF companies = <<>>
    THEN [bronze |-> rows, timestamp_file |-> timestamp_file, raised |-> None]
  ELSE IF all_posts = <<>>
    THEN [bronze |-> rows, timestamp_file |-> timestamp_file, raised |-> None]
  ELSE IF fault = "StoreUnavailable"
    THEN [bronze |-> rows, timestamp_file |-> timestamp_file, raised |-> Some(fault)]
  ELSE IF fault = "Killed"
    THEN [bronze |-> arrivals(rows, all_posts, time), timestamp_file |-> timestamp_file,
          raised |-> Some(fault)]
  ELSE [bronze |-> arrivals(rows, all_posts, time), timestamp_file |-> Some(time),
        raised |-> None]

\* a run of the ingestion
Main ==
  /\ Idle
  /\ \E n \in 0..(MaxPosts - Cardinality(bronze)),
        companies \in {<<>>, <<"c">>},
        fault \in {"none", "StoreUnavailable", "Killed"} :
       \E all_posts \in [1..n -> ScrapedPosts] :
         LET out == main(bronze, last_ingest, companies, all_posts, fault, now)
         IN /\ bronze' = out.bronze
            /\ last_ingest' = out.timestamp_file
            /\ reply' = Some([op |-> "main", companies |-> companies,
                              all_posts |-> all_posts, fault |-> fault,
                              raised |-> out.raised])
            /\ succession' = NoPair
            /\ UNCHANGED <<now, silver, wm, pc, localVars, result, overlaps, batch,
                           failedAt, histVars, search, insights_fact>>

\* posts as they reach the validation, sound or with an embedding of another
\* length, a negative engagement score or an unknown source type
ValidationInputs ==
  [post_text_cleaned : {<<"a">>}, engagement_score : {0, -2},
   post_embedding : {[dim |-> D, head |-> <<3, 4>>], [dim |-> 3, head |-> <<3, 4>>]},
   source_type : {"Customer", "Unknown"}]

\* the validation of a run, lines 136-139, on a list of posts, and the errors
\* a run returns from it, line 203
ValidatePosts ==
  /\ Idle
  /\ \E n \in 1..MaxPosts :
       \E inputs \in [1..n -> ValidationInputs] :
         LET posts == [i \in 1..n |-> SetKey(inputs[i], "post_id", i)]
             schema_validation == validate_schema_silver(posts)
             quality_validation == validate_data_quality(posts)
         IN Replied([op |-> "validate", posts |-> posts,
                     out |-> [schema_validation |-> schema_validation,
                              quality_validation |-> quality_validation],
                     errors |-> schema_validation.errors \o quality_validation.errors])

NextCalls ==
  \/ ExtractTopTopics
  \/ DeduplicatePosts
  \/ ClassifySourceType
  \/ CalculateEngagementScore
  \/ ValidatePosts
  \/ Main
  \/ Idle /\ Tick
  \/ Taken

SpecCalls == Init /\ [][NextCalls]_vars

\* ---------------------------------------------------------------- properties
BeforePersist ==
  {"FETCH_BATCH", "CLEAN", "DEDUPLICATE", "SCORE_AND_CLASSIFY", "EMBED", "VALIDATE"}

\* run r aborts in this step
Aborts(r) == pc[r] \in InFlight /\ pc'[r] = "ABORTED"
\* run r commits in this step
Commits(r) == pc[r] = "COMMIT" /\ pc'[r] = "DONE"
\* the part of a stored row that is derived from the post
Content(row) ==
  <<row.post_text_cleaned, row.engagement_score, row.post_embedding, row.source_type>>

\* C1: a run that fails at a step before PERSIST writes no ProcessedPost and
\* leaves the stored watermark at the value it read at LOAD_WATERMARK, and
\* the batch the next run fetches contains the batch of the failed run.
C1_AbortThenRefetch ==
  [][\A r \in Runs :
       /\ (Aborts(r) /\ pc[r] \in BeforePersist)
            => (silver' = silver /\ wm' = wm /\ wm = wmRead[r])
       /\ (pc[r] = "FETCH_BATCH" /\ pc'[r] \in {"CLEAN", "DONE"}
             /\ failedAt[r] \in BeforePersist)
            => batch[r] \subseteq batch'[r]]_vars

\* C2: every step either leaves both the Post Store and the watermark as they
\* were, or is the commit of one run that makes every upsert of its batch and
\* its new watermark visible together; and whenever a watermark is stored,
\* every post of the batch committed with it is in the Post Store.
C2_AtomicCommit ==
  /\ [](wm # None => (wmBatch # {} /\ wmBatch \subseteq Ids(silver)))
  /\ [](wm = None => silver = {})
  /\ [][(silver' # silver \/ wm' # wm) =>
          \E r \in Runs :
            /\ Commits(r)
            /\ newWm[r] # None
            /\ wm' = newWm[r]
            /\ \A i \in DOMAIN posts_list[r] :
                 \E row \in silver' :
                   /\ row.post_id = posts_list[r][i].post_id
                   /\ row.processed_at = txStart[r]
                   /\ row.post_embedding = posts_list[r][i].post_embedding
            /\ \A row \in silver' :
                 row \in silver \/ row.post_id \in PostIdsOf(posts_list[r])]_vars

\* C2 witness: a batch and its watermark are committed, and a later run that
\* had executed its upserts crashed before its commit and left no row behind.
C2_Witness ==
  /\ wm # None
  /\ silver # {}
  /\ \E r \in Runs :
       /\ pc[r] = "ABORTED"
       /\ failedAt[r] \in {"ADVANCE_WATERMARK", "WRITE_WATERMARK", "COMMIT"}
       /\ batch[r] # {}
       /\ batch[r] \cap Ids(silver) = {}

\* C3: the stored watermark is never at or past the arrival time of a post
\* that no committed batch contained.
C3_NoPostSkipped ==
  \A b \in bronze :
    (wm # None /\ b.created_at <= wm[1]) => b.post_id \in fetchedByCommitted

\* C4 as stated: two runs in succession with no arrival advance the watermark
\* exactly once.
C4_ExactlyOnce ==
  succession.phase = "AFTER" => (succession.first /\ ~succession.second)

\* C4, amended: of two runs in succession with no arrival the second never
\* gets past FETCH_BATCH, changes neither the Post Store nor the watermark,
\* and returns processed = 0; the watermark is advanced at most once, by the
\* first run, and exactly once when the batch of the first run is not empty.
C4_SecondRunIdle ==
  /\ [](succession.phase = "SECOND" => \A r \in Runs : pc[r] \notin InFlight \ {"FETCH_BATCH"})
  /\ [](succession.phase = "AFTER" => ~succession.second)
  /\ [](succession.phase = "BETWEEN" =>
          \A r \in Runs : pc[r] = "DONE" => (succession.first <=> batch[r] # {}))
  /\ [][succession.phase = "SECOND" =>
          /\ silver' = silver
          /\ wm' = wm
          /\ \A r \in Runs :
               pc'[r] = "DONE" /\ pc[r] # "DONE"
                 => result'[r] = Some([processed |-> 0, errors |-> <<>>])]_vars

\* C4 witness: the first of two runs committed a batch and the second has
\* returned.
C4_Witness ==
  succession.phase = "AFTER" /\ succession.first /\ silver # {} /\ wm # None

\* C5: a run commits its watermark only if the value it read at
\* LOAD_WATERMARK is still the stored value.
C5_CompareAndSwap ==
  [][\A r \in Runs : Commits(r) => wmRead[r] = wm]_vars

\* C6: a run whose batch has more than 1% posts with missing cleaned text at
\* VALIDATE does not complete: it persists nothing and leaves the watermark.
C6_MissingTextFailsRun ==
  [][\A r \in Runs :
       (/\ validation[r].quality # None
        /\ 100 * validation[r].quality[1].metrics.null_text_count
             > NullTextPercent * validation[r].quality[1].metrics.total_posts)
         => (pc'[r] # "DONE" /\ silver' = silver /\ wm' = wm)]_vars

\* C7: every stored ProcessedPost has an embedding of length D, an
\* engagement_score >= 0, a source_type among Customer, Competitor, Reviewer
\* and a cleaned text that is present.
C7_StoredPostsValid ==
  \A row \in silver :
    /\ row.post_embedding.dim = D
    /\ row.engagement_score >= 0
    /\ row.source_type \in {"Customer", "Competitor", "Reviewer"}
    /\ "post_text_cleaned" \in DOMAIN row

\* C7 witness: the Post Store holds a post whose cleaned text is empty and a
\* post with a positive score of a competitor.
C7_Witness ==
  /\ \E row \in silver : row.post_text_cleaned = <<>>
  /\ \E row \in silver : row.source_type = "Competitor" /\ row.engagement_score > 0

\* C8: a run that fails at EMBED ends without a result and with its list
\* dropped, the step changes neither the Post Store nor the watermark, and no
\* post of its batch is in the Post Store.
C8_EmbedFailureFailsRun ==
  /\ [](\A r \in Runs :
          (pc[r] = "ABORTED" /\ failedAt[r] = "EMBED")
            => (batch[r] \cap Ids(silver) = {} /\ result[r] = None))
  /\ [][\A r \in Runs :
          (Aborts(r) /\ pc[r] = "EMBED")
            => (silver' = silver /\ wm' = wm /\ posts_list'[r] = <<>>)]_vars

\* C8 witness: a run with a batch has failed at EMBED.
C8_Witness ==
  \E r \in Runs : pc[r] = "ABORTED" /\ failedAt[r] = "EMBED" /\ batch[r] # {}

\* C9: the Post Store holds at most one ProcessedPost per id, and a commit
\* that persists a post derived from the same bronze fields as the stored
\* row leaves the content of that row as it was.
C9_UpsertById ==
  /\ [](\A a, b \in silver : a.post_id = b.post_id => a = b)
  /\ [][\A r \in Runs :
          Commits(r) =>
            \A i \in DOMAIN posts_list[r] :
              LET id == posts_list[r][i].post_id
              IN (id \in Ids(silver) /\ srcOf[id] = Some(raw_of(posts_list[r][i])))
                   => /\ Cardinality({row \in silver' : row.post_id = id}) = 1
                      /\ Content(RowOf(silver', id)) = Content(RowOf(silver, id))]_vars

\* C9 witness: a stored post has been persisted a second time, by a run that
\* started later than the one that inserted it.
C9_Witness ==
  \E row \in silver : row.processed_at > row.created_at

\* C10: a search returns at most top_k results, each with engagement_score >=
\* engagement_threshold and similarity >= min_similarity, in descending order
\* of similarity, and no stored post that passes both filters and is left
\* out has a strictly higher similarity than a returned one.
C10_SearchTopK ==
  search # None =>
    LET s == search[1]
        q == generate_query_embedding(s.query)
        similarity(row) == cosine_similarity(row.post_embedding, q)
        left_out == {row \in silver :
                       /\ row.engagement_score >= s.engagement_threshold
                       /\ FloatGE(similarity(row), s.min_similarity)
                       /\ \A i \in DOMAIN s.out : s.out[i].post_id # row.post_id}
    IN /\ Len(s.out) <= s.top_k
       /\ \A i \in DOMAIN s.out :
            /\ s.out[i].engagement_score >= s.engagement_threshold
            /\ FloatGE(s.out[i].similarity_score, s.min_similarity)
       /\ \A i, j \in DOMAIN s.out :
            i < j => FloatGE(s.out[i].similarity_score, s.out[j].similarity_score)
       /\ \A row \in left_out : \A i \in DOMAIN s.out :
            ~FloatGT(similarity(row), s.out[i].similarity_score)

\* C10 witness: a search returned top_k results and left out a stored post
\* that passes both filters.
C10_Witness ==
  /\ search # None
  /\ Len(search[1].out) = search[1].top_k
  /\ \E row \in silver :
       /\ row.engagement_score >= search[1].engagement_threshold
       /\ FloatGE(cosine_similarity(row.post_embedding,
                                    generate_query_embedding(search[1].query)),
                  search[1].min_similarity)
       /\ \A i \in DOMAIN search[1].out : search[1].out[i].post_id # row.post_id

\* the arguments of a recorded search
Arguments(s) == <<s.impl, s.query, s.top_k, s.engagement_threshold, s.min_similarity>>

\* C11: among the results of a search that have equal similarity the one
\* with the later created_at comes first, and two successive searches with
\* the same arguments against the unchanged store return the same list.
C11_TiesNewestFirst ==
  /\ [](search # None =>
          \A i, j \in DOMAIN search[1].out :
            (/\ i < j
             /\ FloatGE(search[1].out[i].similarity_score, search[1].out[j].similarity_score)
             /\ FloatGE(search[1].out[j].similarity_score, search[1].out[i].similarity_score))
              => search[1].out[i].created_at >= search[1].out[j].created_at)
  /\ [][(/\ search # None
          /\ search' # None
          /\ Arguments(search'[1]) = Arguments(search[1])
          /\ silver' = silver)
           => search'[1].out = search[1].out]_vars

\* the reply is that of a call of op
Returned(op) == reply # None /\ reply[1].op = op

\* C12: cosine_similarity gives the same value for (vec1, vec2) and for
\* (vec2, vec1), and when one of the vectors has norm zero the value is the
\* number 0.0, not NaN.
C12_CosineZeroNorm ==
  Returned("cosine_similarity") =>
    LET c == reply[1]
    IN /\ c.out = cosine_similarity(c.vec2, c.vec1)
       /\ (dot(c.vec1.head, c.vec1.head) = 0 \/ dot(c.vec2.head, c.vec2.head) = 0)
            => (~IsNaN(c.out) /\ c.out[1] = 0)

\* the stored posts that pass the filters of a request of /api/search
Passing(request) ==
  {row \in silver :
     /\ row.engagement_score >= request.engagement_threshold
     /\ FloatGE(cosine_similarity(row.post_embedding,
                                  generate_query_embedding(request.query)), <<0, 1>>)}

\* C13: a call of the query path in which the embedding provider or the
\* store fails answers with that error and with no result; a call in which
\* nothing fails answers with success, and with the empty list when no
\* stored post passes the filters.
C13_FailureIsNotEmpty ==
  (Returned("search_similar_posts") \/ Returned("get_marketing_insights")) =>
    LET r == reply[1]
    IN /\ r.fault # "none" =>
            (r.out.status_code = 500 /\ DOMAIN r.out = {"status_code", "detail"}
               /\ r.out.detail = r.fault)
       /\ r.fault = "none" =>
            (r.out.status_code = 200 /\ r.out.body.status = "success")
       /\ (r.fault = "none" /\ r.op = "search_similar_posts") =>
            (r.out.body.results = <<>> <=> Passing(r.request) = {})

\* C13 witness: over a store that holds posts a search failed, and the
\* caller got the error.
C13_Witness ==
  /\ Returned("search_similar_posts")
  /\ reply[1].fault = "StoreUnavailable"
  /\ Passing(reply[1].request) # {}
  /\ reply[1].out.status_code = 500

\* C14: a step in which a query replies, whatever the runs of the pipeline
\* are doing, leaves the raw posts, the ProcessedPosts and the watermark as
\* they were.
C14_PureRead ==
  [][(reply' # reply /\ reply' # None) =>
       (bronze' = bronze /\ silver' = silver /\ wm' = wm)]_vars

\* C14 witness: get_insights has replied over a store that holds posts
\* while a run had made its upserts and not committed them.
C14_Witness ==
  /\ Returned("get_marketing_insights")
  /\ silver # {}
  /\ \E r \in Runs : pc[r] \in {"ADVANCE_WATERMARK", "WRITE_WATERMARK", "COMMIT"}

\* the result set get_insights classifies for a query: the stored posts
\* that a search with the thresholds 0.0 returns (at most InsightsTopK)
ResultSet(query) == Passing([query |-> query, engagement_threshold |-> 0])

MetricNames ==
  {"avg_engagement", "max_engagement", "high_engagement_threshold",
   "low_engagement_threshold"}

\* get_insights has returned a bundle
InsightsReturned == Returned("get_marketing_insights") /\ reply[1].fault = "none"

\* a bundle with empty sequences and the four metrics at 0.0
EmptyBundle(bundle) ==
  /\ {"high_value_content", "content_gaps", "top_performing_topics",
       "engagement_metrics"} \subseteq DOMAIN bundle
  /\ bundle.high_value_content = <<>>
  /\ bundle.content_gaps = <<>>
  /\ bundle.top_performing_topics = <<>>
  /\ DOMAIN bundle.engagement_metrics = MetricNames
  /\ \A m \in MetricNames : RatEq(bundle.engagement_metrics[m], Ratio(0, 1))

\* C15: when there is no result to classify, the insight operation returns
\* a bundle whose high_value_content, content_gaps and top topics are empty
\* and whose four engagement metrics are present and 0.0.
C15_EmptyBundle ==
  /\ (InsightsReturned /\ ResultSet(reply[1].request.query) = {})
       => EmptyBundle(reply[1].out.body.insights)
  /\ (Returned("generate_marketing_insights") /\ reply[1].posts = <<>>)
       => EmptyBundle(reply[1].out)

\* no post is in both buckets of a bundle
Disjoint(bundle) ==
  \A i \in DOMAIN bundle.high_value_content, j \in DOMAIN bundle.content_gaps :
    bundle.high_value_content[i].post_id # bundle.content_gaps[j].post_id

Scores(bucket) == [i \in DOMAIN bucket |-> bucket[i].engagement_score]

\* the Post Store holds the four posts with the engagement scores 10, 5, 1
\* and 0, and the query is the one their similarity decreases in this order
\* for
Scenario(query) ==
  /\ Cardinality(silver) = 4
  /\ {row.engagement_score : row \in silver} = {100, 50, 10, 0}
  /\ query = <<"a">>

\* C17: for the four results with the engagement scores 10, 5, 1 and 0 the
\* bundle has high_threshold = 7.75 and low_threshold = 0.75, its
\* high_value_content is the post with score 10 and its content_gaps is the
\* post with score 0.
C17_QuartileScenario ==
  (InsightsReturned /\ Scenario(reply[1].request.query)) =>
    LET bundle == reply[1].out.body.insights
    IN /\ Scores(bundle.high_value_content) = <<100>>
       /\ Scores(bundle.content_gaps) = <<0>>
       /\ "engagement_metrics" \in DOMAIN bundle
       /\ RatEq(bundle.engagement_metrics.high_engagement_threshold, Ratio(775, 100))
       /\ RatEq(bundle.engagement_metrics.low_engagement_threshold, Ratio(75, 100))

\* the engagement scores of a set of posts, as a list
ScoresOf(rows) ==
  LET o == CHOOSE o \in Orderings(rows, LAMBDA x, y : TRUE) : TRUE
  IN [i \in DOMAIN o |-> o[i].engagement_score]

\* the engagement metrics of a result set with the scores `scores`
MetricsOf(scores) ==
  IF scores = <<>> THEN [m \in MetricNames |-> Ratio(0, 1)]
  ELSE [avg_engagement |-> Ratio(sum(scores), 10 * Len(scores)),
        max_engagement |-> Score(max(scores)),
        high_engagement_threshold |-> percentile(scores, 75),
        low_engagement_threshold |-> percentile(scores, 25)]

\* the bundle carries the four metrics of the result set with these scores,
\* and its buckets respect the two thresholds among them
ClassifiedBy(bundle, scores) ==
  /\ "engagement_metrics" \in DOMAIN bundle
  /\ DOMAIN bundle.engagement_metrics = MetricNames
  /\ \A m \in MetricNames : RatEq(bundle.engagement_metrics[m], MetricsOf(scores)[m])
  /\ \A i \in DOMAIN bundle.high_value_content :
       RatGE(Score(bundle.high_value_content[i].engagement_score),
             MetricsOf(scores).high_engagement_threshold)
  /\ \A i \in DOMAIN bundle.content_gaps :
       RatLE(Score(bundle.content_gaps[i].engagement_score),
             MetricsOf(scores).low_engagement_threshold)

\* C18: the thresholds that bucket the results are the 75th and the 25th
\* percentile of the engagement scores of the result set that is classified,
\* and the bundle carries avg, max, high_threshold and low_threshold of that
\* set.
C18_ThresholdsOfResultSet ==
  /\ InsightsReturned
       => ClassifiedBy(reply[1].out.body.insights,
                       ScoresOf(ResultSet(reply[1].request.query)))
  /\ Returned("generate_marketing_insights")
       => ClassifiedBy(reply[1].out,
                       Scores(find_similar_posts_silver(reply[1].query, reply[1].posts,
                                2 * reply[1].top_k, reply[1].similarity_threshold, 0)))

\* the post ids of a bucket
BucketIds(bucket) == {bucket[i].post_id : i \in DOMAIN bucket}

\* C19: every result is in high_value_content iff its engagement score is
\* at least the 75th percentile of the scores of the result set, and is in
\* content_gaps iff it is not and its score is at most the 25th percentile;
\* a result that meets both conditions is in high_value_content only.
C19_Partition ==
  InsightsReturned =>
    LET bundle == reply[1].out.body.insights
        results == ResultSet(reply[1].request.query)
        high_threshold == MetricsOf(ScoresOf(results)).high_engagement_threshold
        low_threshold == MetricsOf(ScoresOf(results)).low_engagement_threshold
    IN \A row \in results :
         LET is_high == RatGE(Score(row.engagement_score), high_threshold)
             is_low == RatLE(Score(row.engagement_score), low_threshold)
         IN /\ row.post_id \in BucketIds(bundle.high_value_content) <=> is_high
            /\ row.post_id \in BucketIds(bundle.content_gaps) <=> (~is_high /\ is_low)

\* a bucket is in descending order of similarity
Descending(bucket, similarity(_)) ==
  \A i, j \in DOMAIN bucket : i < j => FloatGE(similarity(bucket[i]), similarity(bucket[j]))

\* a bucket holds the top_k most similar of the posts `members`
TopOf(bucket, members, query, top_k) ==
  LET similarity(row) == cosine_similarity(row.post_embedding, generate_query_embedding(query))
  IN /\ Len(bucket) = Min(top_k, Cardinality(members))
     /\ Descending(bucket, LAMBDA p : p.similarity_score)
     /\ BucketIds(bucket) \subseteq Ids(members)
     /\ \A row \in members : \A i \in DOMAIN bucket :
          row.post_id \notin BucketIds(bucket)
            => ~FloatGT(similarity(row), bucket[i].similarity_score)

\* C20: each bucket of a bundle is in descending order of similarity and
\* holds at most top_k posts, the top_k most similar of the posts that
\* belong to the bucket; top_k is the one of the request.
C20_BucketsTopK ==
  /\ InsightsReturned =>
       LET bundle == reply[1].out.body.insights
           request == reply[1].request
           results == ResultSet(request.query)
       IN /\ TopOf(bundle.high_value_content,
                   {row \in results : 10 * row.engagement_score >= HighEngagement},
                   request.query, request.top_k)
          /\ TopOf(bundle.content_gaps,
                   {row \in results : 10 * row.engagement_score < LowEngagement},
                   request.query, request.top_k)
  /\ Returned("generate_marketing_insights") =>
       /\ Len(reply[1].out.high_value_content) <= reply[1].top_k
       /\ Len(reply[1].out.content_gaps) <= reply[1].top_k
       /\ Descending(reply[1].out.high_value_content, LAMBDA p : p.cosine_similarity_score)
       /\ Descending(reply[1].out.content_gaps, LAMBDA p : p.cosine_similarity_score)

\* the tokens of the texts that count as topics, in the order they are met
RECURSIVE TopicTokens(_)
TopicTokens(texts) ==
  IF texts = <<>> THEN <<>>
  ELSE SelectSeq(word_runs(lower(Head(texts)), <<>>),
                 LAMBDA w : /\ Len(w) >= 4
                            /\ w \notin stopwords_gold
                            /\ \E i \in DOMAIN w : w[i] \notin Digits)
       \o TopicTokens(Tail(texts))

Occurrences(tokens, w) == Cardinality({i \in DOMAIN tokens : tokens[i] = w})

FirstMet(tokens, w) == CHOOSE i \in DOMAIN tokens : tokens[i] = w /\ \A j \in 1..(i - 1) : tokens[j] # w

\* the topics `out` are the top_n most frequent tokens, in descending
\* frequency and among equals in the order first met, each with the score
\* count / max_count
TopicsOf(out, tokens, top_n) ==
  LET Before(v, w) ==
        \/ Occurrences(tokens, v) > Occurrences(tokens, w)
        \/ Occurrences(tokens, v) = Occurrences(tokens, w)
           /\ FirstMet(tokens, v) < FirstMet(tokens, w)
      max_count == Occurrences(tokens, out[1].topic)
  IN /\ Len(out) = Min(top_n, Cardinality(Range(tokens)))
     /\ \A i \in DOMAIN out :
          /\ DOMAIN out[i] = {"topic", "score"}
          /\ out[i].topic \in Range(tokens)
          /\ RatEq(out[i].score, Ratio(Occurrences(tokens, out[i].topic), max_count))
          /\ out[i].score[1] > 0 /\ RatLE(out[i].score, Ratio(1, 1))
          /\ \A j \in DOMAIN out : i < j => Before(out[i].topic, out[j].topic)
          /\ \A w \in Range(tokens) :
               w \notin {out[j].topic : j \in DOMAIN out} => Before(out[i].topic, w)
     /\ out # <<>> => RatEq(out[1].score, Ratio(1, 1))

\* C21: topic extraction returns at most top_n topics, the most frequent
\* lowercase tokens of at least 4 characters that are neither stopwords nor
\* numbers, in descending frequency and among equals in the order first met;
\* a topic's score is count / max_count, 1 for the first and in (0, 1] for
\* all; no token, no topic.
C21_TopTopics ==
  Returned("_extract_top_topics") =>
    TopicsOf(reply[1].out, TopicTokens(reply[1].texts), reply[1].top_n)

\* a content in lower case and without the whitespace around it
Normalized(content) == strip(lower(content))

\* C22: the posts deduplicate_posts returns are, in the order of the batch,
\* the first post of each group of posts with one normalized content: no two
\* of them share a normalized content, every dropped post has an earlier
\* retained post with its normalized content, and a second application
\* changes nothing.
C22_FirstOfEachGroup ==
  Returned("deduplicate_posts") =>
    LET posts == reply[1].posts
        out == reply[1].out
        Same(p, q) == Normalized(p.content) = Normalized(q.content)
    IN /\ \A i \in DOMAIN out : out[i].post_id \in DOMAIN posts /\ out[i] = posts[out[i].post_id]
       /\ \A i, j \in DOMAIN out : i < j => out[i].post_id < out[j].post_id
       /\ \A i, j \in DOMAIN out : i # j => ~Same(out[i], out[j])
       /\ \A k \in DOMAIN posts :
            IF \E i \in DOMAIN out : out[i].post_id = k
              THEN \A j \in 1..(k - 1) : ~Same(posts[j], posts[k])
              ELSE \E i \in DOMAIN out : out[i].post_id < k /\ Same(out[i], posts[k])
       /\ deduplicate_posts(out) = out

\* a post is dropped whose content differs from the retained one in case and
\* in the whitespace around it
C22_Witness ==
  /\ Returned("deduplicate_posts")
  /\ \E k \in DOMAIN reply[1].posts :
       /\ \A i \in DOMAIN reply[1].out : reply[1].out[i].post_id # k
       /\ \A j \in DOMAIN reply[1].posts : j # k => reply[1].posts[j].content # reply[1].posts[k].content

\* one of the keywords occurs in the text, whatever the case
Matches(keywords, text) ==
  \E k \in DOMAIN keywords : Contains(lower(keywords[k]), lower(text))

\* C23: the source type is Competitor when the author or the content matches
\* a competitor keyword, also when the content has a reviewer indicator;
\* otherwise Reviewer when the author or the content matches a reviewer
\* indicator; otherwise Customer.
C23_ClassifiedInOrder ==
  Returned("classify_source_type") =>
    reply[1].out =
      IF \/ Matches(get_competitor_keywords, reply[1].author)
         \/ Matches(get_competitor_keywords, reply[1].content)
        THEN "Competitor"
      ELSE IF \/ Matches(reviewer_indicators, reply[1].author)
              \/ Matches(reviewer_indicators, reply[1].content)
        THEN "Reviewer"
      ELSE "Customer"

\* C23, amended: the source type is one of the three; it is Competitor when
\* the author matches a competitor keyword, also when the content has a
\* reviewer indicator; otherwise Reviewer when the content has a reviewer
\* indicator; otherwise Customer.
C23_AuthorThenContent ==
  Returned("classify_source_type") =>
    /\ reply[1].out \in source_types
    /\ reply[1].out =
         IF Matches(get_competitor_keywords, reply[1].author) THEN "Competitor"
         ELSE IF Matches(reviewer_indicators, reply[1].content) THEN "Reviewer"
         ELSE "Customer"

\* a competitor's account posts a text with a reviewer indicator
C23_Witness ==
  /\ Returned("classify_source_type")
  /\ Matches(get_competitor_keywords, reply[1].author)
  /\ Matches(reviewer_indicators, reply[1].content)
  /\ reply[1].out = "Competitor"

\* C24: ten times the engagement score is 2 * likes + 3 * shares +
\* 5 * comments; the score is at least 0, is 0 only when the three counts
\* are 0, and does not decrease when one of the counts grows.
C24_WeightedScore ==
  Returned("calculate_engagement_score") =>
    LET likes == reply[1].likes
        shares == reply[1].shares
        comments == reply[1].comments
        score == reply[1].out
    IN /\ score = (2 * likes) + (3 * shares) + (5 * comments)
       /\ score >= 0
       /\ score = 0 <=> (likes = 0 /\ shares = 0 /\ comments = 0)
       /\ calculate_engagement_score(likes + 1, shares, comments) >= score
       /\ calculate_engagement_score(likes, shares + 1, comments) >= score
       /\ calculate_engagement_score(likes, shares, comments + 1) >= score

\* a post with two likes, a share and a comment has the score 1.2
C24_Witness ==
  /\ Returned("calculate_engagement_score")
  /\ reply[1].likes = 2 /\ reply[1].shares = 1 /\ reply[1].comments = 1
  /\ reply[1].out = 12

\* C25: FETCH_BATCH fetches the posts that arrived after the watermark read
\* at LOAD_WATERMARK, and every post of the store when there was no
\* watermark to read.
C25_FetchedSinceWatermark ==
  [][\A r \in Runs :
       pc[r] = "FETCH_BATCH" /\ pc'[r] \in {"CLEAN", "DONE"} =>
         batch'[r] = Ids({row \in bronze :
                            wmRead[r] = None \/ row.created_at > wmRead[r][1]})]_vars

\* the errors name the field of the post at position i of the list
Reported(errors, i, field) ==
  \E k \in DOMAIN errors : errors[k].post = i - 1 /\ errors[k].what = field

\* C26: the validation returns whatever it finds, and the errors the run
\* returns report every embedding of a wrong length, every negative
\* engagement score and every source type outside the allowed set.
C26_ViolationsReported ==
  Returned("validate") =>
    \A i \in DOMAIN reply[1].posts :
      LET post == reply[1].posts[i]
      IN /\ post.post_embedding.dim # D => Reported(reply[1].errors, i, "post_embedding")
         /\ post.engagement_score < 0 => Reported(reply[1].errors, i, "engagement_score")
         /\ post.source_type \notin source_types => Reported(reply[1].errors, i, "source_type")

\* C27: the stored watermark of 'bronze_to_silver' never decreases: every
\* committed write stores a value greater than or equal to the one it
\* replaces, also when two runs overlap and commit in the other order than
\* that in which they took their new watermark.
C27_WatermarkMonotonic ==
  [][wm # None /\ wm' # wm => wm' # None /\ wm'[1] >= wm[1]]_vars

\* a step is a run of main that returns or raises
MainRuns == reply = None /\ reply' # None /\ reply'[1].op = "main"

\* C28: main writes the last-ingest timestamp only when the scrape was not
\* empty and upsert_bronze_posts has returned, its posts committed; when
\* nothing was scraped or the upsert raises the timestamp stays as it was,
\* and a raising upsert leaves no post.
C28_TimestampAfterUpsert ==
  [][/\ last_ingest' # last_ingest =>
          /\ MainRuns
          /\ reply'[1].all_posts # <<>>
          /\ reply'[1].raised = None
          /\ Cardinality(bronze') = Cardinality(bronze) + Len(reply'[1].all_posts)
          /\ \A row \in bronze' \ bronze : row.created_at <= last_ingest'[1]
     /\ MainRuns /\ (reply'[1].all_posts = <<>> \/ reply'[1].fault = "StoreUnavailable") =>
          /\ last_ingest' = last_ingest
          /\ bronze' = bronze]_vars

\* after a run of main that saved the timestamp, the upsert of a later run
\* raises and the timestamp is the earlier one
C28_Witness ==
  /\ Returned("main")
  /\ reply[1].all_posts # <<>>
  /\ reply[1].raised = Some("StoreUnavailable")
  /\ last_ingest # None /\ last_ingest[1] < now
  /\ bronze # {}

\* a step is a call of save_insights_to_db that returns or raises
SaveRuns == reply = None /\ reply' # None /\ reply'[1].op = "save_insights_to_db"

\* C29: save_insights_to_db is all-or-nothing: a call that returns has
\* committed one row for every post of the high-value content and of the
\* content gaps; a call in which a merge or the commit fails raises the
\* exception and leaves the table as it was; nothing else writes the table.
C29_AllOrNothing ==
  [][/\ insights_fact' # insights_fact => SaveRuns
     /\ SaveRuns =>
          LET call == reply'[1]
              high == call.insights.high_value_content
              gaps == call.insights.content_gaps
              new == insights_fact' \ insights_fact
              Saved(post, insight_type) ==
                \E row \in new : /\ row.post_id = post.post_id
                                 /\ row.query_text = call.query
                                 /\ row.metadata.insight_type = insight_type
          IN /\ insights_fact \subseteq insights_fact'
             /\ (call.raised = None) = (call.failing = 0)
             /\ call.raised # None => new = {}
             /\ call.raised = None =>
                  /\ Cardinality(new) = Len(high) + Len(gaps)
                  /\ \A i \in DOMAIN high : Saved(high[i], "high_value")
                  /\ \A i \in DOMAIN gaps : Saved(gaps[i], "content_gap")]_vars

\* a save fails after its first merge, on a table an earlier save has written
C29_Witness ==
  /\ Returned("save_insights_to_db")
  /\ reply[1].raised # None
  /\ reply[1].failing > 1
  /\ insights_fact # {}

\* C30: a run reaches the validation with a non-empty list only: an empty
\* fetch has returned before, and no step between turns a non-empty list into
\* an empty one, so len(posts) is never 0 where validate_data_quality
\* divides by it.
C30_ValidatedBatchNonEmpty ==
  \A r \in Runs :
    /\ pc[r] \in {"CLEAN", "DEDUPLICATE", "SCORE_AND_CLASSIFY", "EMBED", "VALIDATE"} =>
         posts_list[r] # <<>>
    /\ pc[r] = "PERSIST" => /\ validation[r].quality # None
                            /\ posts_list[r] # <<>>

\* a run is at the validation after the deduplication has dropped a post
C30_Witness ==
  \E r \in Runs : /\ pc[r] = "VALIDATE"
                  /\ posts_list[r] # <<>>
                  /\ Len(posts_list[r]) < Cardinality(batch[r])

====
